---- MODULE Spec2Model ----
(***************************************************************************)
(* A model of the AI voice interviewer: the dialogue policy                *)
(* (src/src/ai_conversation_manager.py), the session logger                *)
(* (src/src/session_logger.py), the question manager                       *)
(* (src/src/question_manager.py), the audio capture loop                   *)
(* (src/src/audio_manager.py) and the WebSocket server (src/web_server.py).*)
(*                                                                         *)
(* Texts are sequences of word tokens; Python's None is the empty tuple    *)
(* and a present value v is the 1-tuple <<v>>.  Wall-clock time is counted *)
(* in ticks, TicksPerMinute of them to the minute.  The timestamp of an    *)
(* exchange is left out: nothing but the final report reads it.            *)
(***************************************************************************)
EXTENDS Integers, Sequences, FiniteSets, TLC

VARIABLES
    conversation_state, \* the ConversationState of a directly driven AIConversationManager
    action,             \* what its last process_user_speech call returned (None before any call)
    last_call,          \* observer: the inputs and the state before that call
    fu_since_question,  \* observer: 'follow_up' actions since the last 'question' action
    fu_on_current,      \* observer: 'follow_up' actions since current_question was last assigned
    llm_reply,          \* the reasoning call's outcome handed to one _analyze_intent call
    analyzed,           \* what that call returned (None before it)
    eval_answer,        \* the user_answer handed to one evaluate_answer call
    eval_response,      \* the outcome of that call's request to the language model
    eval_result,        \* what that call returned (None before it)
    qm_call,            \* the last call on a directly driven QuestionManager, with its result
    session_logger,     \* a directly driven SessionLogger's session (None before construction)
    inbox,              \* event loop: the frames received on each connection, not yet read
    tasks,              \* event loop: where each connection's handle_client coroutine is
    now,                \* the clock, in ticks
    active_sessions,    \* WebSocketInterviewServer.active_sessions: session id -> session
    used_questions,     \* QuestionManager.used_questions of the server's question manager
    sessions_created,   \* how many session ids have been issued
    connections,        \* the websockets whose handle_client loop is running
    request,            \* the last inbound message (None before any)
    response,           \* the frames sent back while handling it
    calls,              \* the external services called while handling it
    audio_config,       \* AudioManager.audio_config (None before construction)
    is_recording,       \* AudioManager.is_recording
    recorded_audio,     \* AudioManager.recorded_audio: the peak amplitude of each frame
    recording_thread,   \* the capture thread: None, "unstarted", "running", "reading", "closing", "finished"
    frame_count,        \* _record_audio_thread's frame_count
    silence_counter,    \* _record_audio_thread's silence_counter
    stop_reason,        \* observer: why the capture loop was left
    caller,             \* where the thread calling the AudioManager is
    returned,           \* what its last call returned (None before any call)
    recording_complete, \* record_and_transcribe's event; None when no callback is registered
    transcribed,        \* the audio record_and_transcribe handed to speech_to_text
    interrupted,        \* observer: record_and_transcribe's wait was interrupted
    audio_step          \* observer: the operation that took the last audio step

\* The variables of the specifications that drive one component by itself.
call_vars == <<llm_reply, analyzed, eval_answer, eval_response, eval_result, qm_call,
               session_logger, inbox, tasks>>
dialogue_vars == <<conversation_state, action, last_call, fu_since_question, fu_on_current,
                   llm_reply, analyzed, eval_answer, eval_response, eval_result, qm_call,
                   session_logger, inbox, tasks>>
server_vars == <<active_sessions, used_questions, sessions_created, connections,
                 request, response, calls>>
audio_vars == <<audio_config, is_recording, recorded_audio, recording_thread, frame_count,
                silence_counter, stop_reason, caller, returned, recording_complete,
                transcribed, interrupted, audio_step>>
vars == <<conversation_state, action, last_call, fu_since_question, fu_on_current,
          llm_reply, analyzed, eval_answer, eval_response, eval_result, qm_call,
          session_logger, inbox, tasks, now,
          active_sessions, used_questions, sessions_created, connections,
          request, response, calls, audio_config, is_recording, recorded_audio,
          recording_thread, frame_count, silence_counter, stop_reason, caller, returned,
          recording_complete, transcribed, interrupted, audio_step>>

---------------------------------------------------------------------------
(* Bounds of the model *)

MaxExchanges == 6       \* exchanges in one conversation history
MaxOffTopic == 1        \* of them, utterances not classified as answers
TicksPerMinute == 1     \* resolution of the clock
MaxTime == 3            \* the clock stops here
MaxSessions == 1        \* sessions started on one server
MaxConnections == 1     \* websocket connections
MaxServerExchanges == 1 \* exchanges in one session's history, under Spec
MaxDuration == 2        \* longest interview_duration a client asks for, in minutes
MaxInterviewExchanges == 2  \* exchanges in one session's history, under SpecInterview
MaxSampleRate == 3      \* audio: samples per second
MaxChunkSize == 2       \* audio: samples per frame
MaxSilenceSeconds == 2  \* audio: the configured silence threshold, in seconds
MaxRecordingSeconds == 2    \* audio: the configured maximum recording duration
MaxReplyLen == 3        \* pieces in one reply to the intent prompt
MaxUtterances == 3      \* exchanges in one conversation history, under SpecUtterance
MaxAnswerWords == 56    \* words in one evaluated answer
MaxSharedSessions == 2  \* sessions started on one server, under SpecSharing
MaxQmCalls == 5         \* calls made on one QuestionManager, under SpecQuestions
MaxLoggedQuestions == 3 \* entries of one session record, under SpecLogger
MaxLoggedIds == 2       \* bank questions whose entries are logged, under SpecLogger
MaxLateCalls == 1       \* calls on a session record after its first end_session
MaxBankSize == 2        \* questions in one bank file, under SpecBank
MaxLoopConnections == 2 \* websocket connections, under SpecLoop
MaxLoopSessions == 2    \* sessions started on one server, under SpecLoop
MaxLoopExchanges == 2   \* frames in flight plus exchanges in all histories, under SpecLoop
MaxResponseLen == 202   \* characters in one reply to the evaluation prompt

(* Program constants *)

MAX_FOLLOW_UPS == 3             \* ConversationState.max_follow_ups
DEFAULT_DURATION_MINUTES == 30  \* ConversationState.duration_minutes
END_BUFFER_MINUTES == 1         \* should_end_interview's buffer
AMPLITUDE_THRESHOLD == 1000     \* _record_audio_thread's silence amplitude
MIN_SCORE == 1                  \* EvaluationResult.score, ge
MAX_SCORE == 10                 \* EvaluationResult.score, le
WORDS_PER_POINT == 5            \* _create_fallback_evaluation's words per score point
FEEDBACK_CHARS == 200           \* _create_fallback_evaluation's slice of the raw reply

---------------------------------------------------------------------------
(* Optional values and texts *)

None == <<>>
Some(v) == <<v>>
Val(o) == o[1]

\* Python truthiness of an Optional[str]: None and "" are falsy.
Truthy(o) == o # None /\ Val(o) # <<>>

\* The keywords a token spells: a category name spells the keywords inside it, any
\* other token only itself.
Words(tok) ==
    CASE tok = "asking_question" -> {"asking", "question"}
      [] tok = "seeking_clarification" -> {"seeking", "clarification"}
      [] tok = "confused_or_stuck" -> {"confused", "or", "stuck"}
      [] tok = "answering_question" -> {"answering", "question"}
      [] OTHER -> {tok}

\* Python's `kw in text`, on word tokens.
Contains(text, kw) == \E i \in 1..Len(text) : kw \in Words(text[i])

\* str.lower(), on the tokens the model's replies use.
LowerToken(tok) ==
    CASE tok = "ASKING" -> "asking"
      [] tok = "Follow" -> "follow"
      [] tok = "Clarification" -> "clarification"
      [] tok = "STUCK" -> "stuck"
      [] OTHER -> tok

lower(text) == [i \in 1..Len(text) |-> LowerToken(text[i])]

\* str.strip(): leading and trailing whitespace tokens are dropped.
RECURSIVE lstrip(_)
lstrip(text) == IF text # <<>> /\ Head(text) = " " THEN lstrip(Tail(text)) ELSE text

RECURSIVE rstrip(_)
rstrip(text) ==
    IF text # <<>> /\ text[Len(text)] = " "
    THEN rstrip(SubSeq(text, 1, Len(text) - 1))
    ELSE text

strip(text) == rstrip(lstrip(text))

---------------------------------------------------------------------------
(* The external reasoning call: it returns a text or raises. *)

LLMText(t) == [kind |-> "text", text |-> t]
LLMRaise == [kind |-> "raise", text |-> <<>>]
\* The call returns None instead of a string.
LLMNonText == [kind |-> "nontext", text |-> <<>>]

\* None where a text is expected ('text': None in a reply, ai_response None in the
\* history). No text holds this token, so None differs from every string, '' included.
NoText == <<"None (not a text)">>

\* The value a generation call hands back inside the try block: its string, or None.
Generated(gen) == IF gen.kind = "text" THEN gen.text ELSE NoText

\* The same value as stored in current_question.
GeneratedQuestion(gen) == IF gen.kind = "text" THEN Some(gen.text) ELSE None

\* Replies to the intent prompt.
IntentReplies ==
    { LLMRaise,
      LLMText(<<"answering_question">>),
      LLMText(<<" ", "ASKING", "clarification", " ">>),
      LLMText(<<"clarification", "confused">>),
      LLMText(<<"stuck">>) }

\* Replies to the follow-up decision prompt.
DecisionReplies ==
    { LLMRaise,
      LLMText(<<" ", "Follow", "up">>),
      LLMText(<<"new", "question">>) }

\* Replies to a generation prompt.
GenReplies == { LLMRaise, LLMText(<<"Q1">>) }

\* A generation call that succeeds with the empty string.
EmptyReply == LLMText(<<>>)

\* Outcomes of evaluate_answer_sync: an EvaluationResult, None, or an exception.
EvalOutcomes ==
    { [kind |-> "result", score |-> 9],
      [kind |-> "none", score |-> 0] }

\* Stands for the outcome of a call that is not made.
NotCalled == [kind |-> "not_called", text |-> <<>>, score |-> 0]

Transcripts == { <<"hello">> }

\* session_context dictionaries handed to process_user_speech.
SessionContexts ==
    { [keys |-> {"interview_duration", "topics"}, interview_duration |-> DEFAULT_DURATION_MINUTES,
       topics |-> Some(<<"programming">>)],
      \* 'topics' present but not iterable (None)
      [keys |-> {"topics"}, interview_duration |-> 0, topics |-> None] }

---------------------------------------------------------------------------
(* Canned texts *)

FIRST_QUESTION_FALLBACK == <<"Let's start with a fundamental question">>
NEXT_QUESTION_FALLBACK == <<"Let's move on to another topic">>
FOLLOW_UP_FALLBACK == <<"Can you elaborate on that a bit more?">>
USER_QUESTION_FALLBACK == <<"That's a good question">>
CONFUSION_FALLBACK == <<"That's okay, take your time">>
ERROR_TEXT == <<"I apologize, I had trouble processing your response">>

CLARIFICATION_FALLBACK(question) ==
    <<"Let me rephrase that question:">> \o question \o <<"Take your time to think about it.">>

---------------------------------------------------------------------------
(* ConversationState *)

ConversationState(start) ==
    [ current_question |-> None,
      awaiting_answer |-> TRUE,
      follow_up_count |-> 0,
      max_follow_ups |-> MAX_FOLLOW_UPS,
      conversation_history |-> <<>>,
      topics_covered |-> <<>>,      \* the keys, in insertion order; every count is 0
      start_time |-> start,
      duration_minutes |-> DEFAULT_DURATION_MINUTES,
      questions_asked |-> 0 ]

\* The exchange recorded in place of the history.
add_exchange_overwriting(cs, user_input, ai_response, intent) ==
    [cs EXCEPT !.conversation_history =
        << [ user_input |-> user_input,
             ai_response |-> ai_response,
             intent |-> intent,
             question_number |-> cs.questions_asked ] >>]

add_exchange(cs, user_input, ai_response, intent) ==
    [cs EXCEPT !.conversation_history =
        Append(@, [ user_input |-> user_input,
                    ai_response |-> ai_response,
                    intent |-> intent,
                    question_number |-> cs.questions_asked ])]

Max(a, b) == IF a >= b THEN a ELSE b

get_remaining_time_unclamped(cs, t) ==
    cs.duration_minutes * TicksPerMinute - (t - cs.start_time)

\* Remaining interview time, in ticks.
get_remaining_time(cs, t) ==
    Max(0, cs.duration_minutes * TicksPerMinute - (t - cs.start_time))

should_end_interview_strict(cs, t) ==
    get_remaining_time(cs, t) < END_BUFFER_MINUTES * TicksPerMinute

should_end_interview(cs, t) ==
    get_remaining_time(cs, t) <= END_BUFFER_MINUTES * TicksPerMinute

---------------------------------------------------------------------------
(* AIConversationManager *)

Reply(type, text) == [type |-> type, text |-> text, auto_play |-> TRUE]

RECURSIVE AddTopics(_, _)
AddTopics(covered, topics) ==
    IF topics = <<>> THEN covered
    ELSE AddTopics(IF \E i \in 1..Len(covered) : covered[i] = Head(topics)
                   THEN covered ELSE Append(covered, Head(topics)),
                   Tail(topics))

\* [cs, raised]: the state after the update, and whether iterating the topics raised.
_update_state_from_session(cs, session_context) ==
    LET cs1 == IF "interview_duration" \in session_context.keys
               THEN [cs EXCEPT !.duration_minutes = session_context.interview_duration]
               ELSE cs
    IN  IF "topics" \notin session_context.keys
        THEN [cs |-> cs1, raised |-> FALSE]
        ELSE IF session_context.topics = None
        THEN [cs |-> cs1, raised |-> TRUE]
        ELSE [cs |-> [cs1 EXCEPT !.topics_covered = AddTopics(@, Val(session_context.topics))],
              raised |-> FALSE]

\* The keyword chain with 'clarification' tested before 'asking'.
IntentOfTextClarificationFirst(intent) ==
    IF Contains(intent, "clarification") THEN "seeking_clarification"
    ELSE IF Contains(intent, "asking") THEN "asking_question"
    ELSE IF Contains(intent, "confused") \/ Contains(intent, "stuck")
    THEN "confused_or_stuck"
    ELSE "answering_question"

\* The keyword chain of _analyze_intent, on the stripped and lowercased reply.
IntentOfText(intent) ==
    IF Contains(intent, "asking") THEN "asking_question"
    ELSE IF Contains(intent, "clarification") THEN "seeking_clarification"
    ELSE IF Contains(intent, "confused") \/ Contains(intent, "stuck")
    THEN "confused_or_stuck"
    ELSE "answering_question"

\* _analyze_intent without its except branch: the failure reaches the caller.
_analyze_intent_uncaught(reply) ==
    IF reply.kind # "text" THEN "raised"
    ELSE IntentOfText(lower(strip(reply.text)))

\* A raising call, and .strip() on a reply that is not a string, end in the except
\* branch.
_analyze_intent(reply) ==
    IF reply.kind # "text" THEN "answering_question"
    ELSE IntentOfText(lower(strip(reply.text)))

\* Only a raising call reaches the except branch; a call that returns None runs the
\* try block to its end.
_generate_first_question(cs, gen) ==
    IF gen.kind # "raise"
    THEN [cs |-> [cs EXCEPT !.current_question = GeneratedQuestion(gen),
                            !.questions_asked = @ + 1,
                            !.awaiting_answer = TRUE],
          response |-> Reply("question", Generated(gen))]
    ELSE [cs |-> cs, response |-> Reply("question", FIRST_QUESTION_FALLBACK)]

\* As above. The prompt is built before the try block, with json.dumps of the context
\* summary and of the bank's first entries: strings, numbers and None, which serialise.
_generate_next_question(cs, gen) ==
    IF gen.kind # "raise"
    THEN [cs |-> [cs EXCEPT !.current_question = GeneratedQuestion(gen),
                            !.questions_asked = @ + 1,
                            !.awaiting_answer = TRUE],
          response |-> Reply("question", Generated(gen))]
    ELSE [cs |-> cs, response |-> Reply("question", NEXT_QUESTION_FALLBACK)]

\* The follow-up without the counter increment.
_generate_follow_up_uncounted(cs, gen) ==
    [cs |-> cs,
     response |-> Reply("follow_up",
                        IF gen.kind # "raise" THEN Generated(gen) ELSE FOLLOW_UP_FALLBACK)]

_generate_follow_up(cs, gen) ==
    LET cs1 == [cs EXCEPT !.follow_up_count = @ + 1]
    IN  [cs |-> cs1,
         response |-> Reply("follow_up",
                            IF gen.kind # "raise" THEN Generated(gen) ELSE FOLLOW_UP_FALLBACK)]

_evaluate_answer(cs, ev) ==
    IF ~Truthy(cs.current_question) THEN [score |-> 5]
    ELSE IF ev.kind = "result" THEN [score |-> ev.score]
    ELSE [score |-> 5]

\* The decision with a failed call read as a follow-up.
_should_follow_up_on_failure(evaluation, reply) ==
    IF reply.kind # "text" THEN "follow_up"
    ELSE IF Contains(lower(strip(reply.text)), "follow") THEN "follow_up"
    ELSE "new_question"

\* The evaluation only fills the prompt. A raising call, and .strip() on None, end in the
\* except branch.
_should_follow_up(evaluation, reply) ==
    IF reply.kind # "text" THEN "new_question"
    ELSE IF Contains(lower(strip(reply.text)), "follow") THEN "follow_up"
    ELSE "new_question"

\* The budget test with the bound included.
FollowUpAllowedOffByOne(cs) == cs.follow_up_count <= cs.max_follow_ups

FollowUpAllowed(cs) == cs.follow_up_count < cs.max_follow_ups

_handle_answer(cs, ev, dec, gen) ==
    IF ~Truthy(cs.current_question)
    THEN _generate_first_question(cs, gen)
    ELSE LET decision == _should_follow_up(_evaluate_answer(cs, ev), dec)
         IN  IF decision = "follow_up" /\ FollowUpAllowed(cs)
             THEN _generate_follow_up(cs, gen)
             ELSE _generate_next_question([cs EXCEPT !.follow_up_count = 0], gen)

\* The guidance reply with the follow-up counter reset.
_handle_user_question_resetting(cs, gen) ==
    [cs |-> [cs EXCEPT !.follow_up_count = 0],
     response |-> Reply("guidance",
                        IF gen.kind # "raise" THEN Generated(gen) ELSE USER_QUESTION_FALLBACK)]

_handle_user_question(cs, gen) ==
    [cs |-> cs,
     response |-> Reply("guidance",
                        IF gen.kind # "raise" THEN Generated(gen) ELSE USER_QUESTION_FALLBACK)]

\* The clarification without the test for a current question.
_handle_clarification_request_unguarded(cs, gen) ==
    [cs |-> cs,
     response |-> Reply("clarification",
                        IF gen.kind # "raise" THEN Generated(gen)
                        ELSE CLARIFICATION_FALLBACK(IF cs.current_question = None
                                                    THEN <<"None">>
                                                    ELSE Val(cs.current_question)))]

_handle_clarification_request(cs, gen) ==
    IF ~Truthy(cs.current_question)
    THEN _generate_first_question(cs, gen)
    ELSE [cs |-> cs,
          response |-> Reply("clarification",
                             IF gen.kind # "raise" THEN Generated(gen)
                             ELSE CLARIFICATION_FALLBACK(Val(cs.current_question)))]

_handle_confusion(cs, gen) ==
    [cs |-> cs,
     response |-> Reply("guidance",
                        IF gen.kind # "raise" THEN Generated(gen) ELSE CONFUSION_FALLBACK)]

\* [cs, response, intent]: intent is None on the error path.
process_user_speech(cs, transcript, session_context, ir, ev, dec, gen) ==
    LET upd == _update_state_from_session(cs, session_context)
    IN  IF upd.raised
        THEN [cs |-> upd.cs, response |-> Reply("error", ERROR_TEXT), intent |-> None]
        ELSE LET intent == _analyze_intent(ir)
                 r == CASE intent = "answering_question" -> _handle_answer(upd.cs, ev, dec, gen)
                        [] intent = "asking_question" -> _handle_user_question(upd.cs, gen)
                        [] intent = "seeking_clarification" ->
                               _handle_clarification_request(upd.cs, gen)
                        [] intent = "confused_or_stuck" -> _handle_confusion(upd.cs, gen)
                        [] OTHER -> _handle_answer(upd.cs, ev, dec, gen)
             IN  [cs |-> add_exchange(r.cs, transcript, r.response.text, intent),
                  response |-> r.response,
                  intent |-> Some(intent)]

---------------------------------------------------------------------------
(* The dialogue policy driven directly: one AIConversationManager, any       *)
(* sequence of process_user_speech calls, any outcomes of the external calls. *)

OffTopic(history) ==
    Cardinality({i \in 1..Len(history) : history[i].intent # "answering_question"})

ProcessUserSpeech(transcript, session_context, ir, ev, dec, gen) ==
    LET cs == conversation_state
        r == process_user_speech(cs, transcript, session_context, ir, ev, dec, gen)
    IN  /\ Len(cs.conversation_history) < MaxExchanges
        /\ OffTopic(r.cs.conversation_history) <= MaxOffTopic
        /\ conversation_state' = r.cs
        /\ action' = Some(r.response)
        /\ last_call' = Some([ intent |-> r.intent,
                               decision |-> _should_follow_up(_evaluate_answer(cs, ev), dec),
                               dec |-> dec,
                               gen |-> gen,
                               before |-> cs ])
        /\ fu_since_question' =
               CASE r.response.type = "follow_up" -> fu_since_question + 1
                 [] r.response.type = "question" -> 0
                 [] OTHER -> fu_since_question
        /\ fu_on_current' =
               IF r.response.type = "follow_up" THEN fu_on_current + 1
               ELSE IF r.response.type = "question" /\ gen.kind # "raise" THEN 0
               ELSE fu_on_current
        /\ UNCHANGED <<call_vars, now, server_vars, audio_vars>>

\* No evaluate_answer call is under way.
EvaluationIdle ==
    /\ eval_answer = None
    /\ eval_response = None
    /\ eval_result = None

\* No QuestionManager call was made, no SessionLogger is constructed, no frame is
\* waiting and no coroutine exists.
ComponentsIdle ==
    /\ qm_call = None
    /\ session_logger = None
    /\ inbox = <<>>
    /\ tasks = <<>>

DialogueInit ==
    /\ conversation_state = ConversationState(0)
    /\ action = None
    /\ last_call = None
    /\ fu_since_question = 0
    /\ fu_on_current = 0
    /\ llm_reply = None
    /\ analyzed = None
    /\ EvaluationIdle
    /\ ComponentsIdle

ServerInit ==
    /\ active_sessions = <<>>
    /\ used_questions = <<>>
    /\ sessions_created = 0
    /\ connections = {}
    /\ request = None
    /\ response = <<>>
    /\ calls = {}

\* No AudioManager is constructed yet.
AudioInit ==
    /\ audio_config = None
    /\ is_recording = FALSE
    /\ recorded_audio = None
    /\ recording_thread = None
    /\ frame_count = 0
    /\ silence_counter = 0
    /\ stop_reason = None
    /\ caller = "idle"
    /\ returned = None
    /\ recording_complete = None
    /\ transcribed = None
    /\ interrupted = FALSE
    /\ audio_step = None

Init ==
    /\ DialogueInit
    /\ ServerInit
    /\ AudioInit
    /\ now = 0

\* The evaluation and the decision are requested only for an answer to a current question.
Evaluates(cs, session_context, ir) ==
    /\ ~_update_state_from_session(cs, session_context).raised
    /\ _analyze_intent(ir) = "answering_question"
    /\ Truthy(cs.current_question)

DialogueNext ==
    \E transcript \in Transcripts, session_context \in SessionContexts, ir \in IntentReplies :
        LET asked == Evaluates(conversation_state, session_context, ir)
        IN  \E ev \in (IF asked THEN EvalOutcomes ELSE {NotCalled}),
               dec \in (IF asked THEN DecisionReplies ELSE {NotCalled}),
               gen \in GenReplies :
                ProcessUserSpeech(transcript, session_context, ir, ev, dec, gen)

SpecDialogue == Init /\ [][DialogueNext]_vars

\* The same calls over a short conversation, the generation call also succeeding with
\* the empty string or returning None.
UtteranceNext ==
    /\ Len(conversation_state.conversation_history) < MaxUtterances
    /\ \E transcript \in Transcripts, session_context \in SessionContexts,
          ir \in IntentReplies :
           LET asked == Evaluates(conversation_state, session_context, ir)
           IN  \E ev \in (IF asked THEN EvalOutcomes ELSE {NotCalled}),
                  dec \in (IF asked THEN DecisionReplies ELSE {NotCalled}),
                  gen \in GenReplies \cup {EmptyReply, LLMNonText} :
                   ProcessUserSpeech(transcript, session_context, ir, ev, dec, gen)

SpecUtterance == Init /\ [][UtteranceNext]_vars

---------------------------------------------------------------------------
(* Intent classification alone: one reasoning-call outcome, one _analyze_intent call. *)

\* The pieces a reply to the intent prompt is made of.
IntentPieces ==
    { "asking", "ASKING", "clarification", "Clarification", "confused", "stuck", "STUCK",
      "asking_question", "seeking_clarification", "confused_or_stuck",
      "answering_question", " ", "yes" }

IntentTexts == UNION { [1..n -> IntentPieces] : n \in 0..MaxReplyLen }

IntentOutcomes == { LLMRaise, LLMNonText } \cup { LLMText(t) : t \in IntentTexts }

InitIntent ==
    /\ conversation_state = ConversationState(0)
    /\ action = None
    /\ last_call = None
    /\ fu_since_question = 0
    /\ fu_on_current = 0
    /\ llm_reply \in { Some(r) : r \in IntentOutcomes }
    /\ analyzed = None
    /\ EvaluationIdle
    /\ ComponentsIdle
    /\ ServerInit
    /\ AudioInit
    /\ now = 0

AnalyzeIntent ==
    /\ analyzed = None
    /\ analyzed' = Some(_analyze_intent(Val(llm_reply)))
    /\ UNCHANGED <<conversation_state, action, last_call, fu_since_question, fu_on_current,
                   llm_reply, eval_answer, eval_response, eval_result, qm_call,
                   session_logger, inbox, tasks, now, server_vars, audio_vars>>

IntentNext == AnalyzeIntent

SpecIntent == InitIntent /\ [][IntentNext]_vars

---------------------------------------------------------------------------
(* LLMEvaluator.evaluate_answer alone: one answer, one reply of the language model. *)

\* JSON documents the model replies with; a document is one token of the reply text.
DOC_VALID == "{\"score\": 7, \"feedback\": \"good\", \"suggestions\": \"more\"}"
DOC_SCORE_1 == "{\"score\": 1, \"feedback\": \"good\", \"suggestions\": \"more\"}"
DOC_SCORE_10 == "{\"score\": 10, \"feedback\": \"good\", \"suggestions\": \"more\"}"
DOC_SCORE_0 == "{\"score\": 0, \"feedback\": \"good\", \"suggestions\": \"more\"}"
DOC_SCORE_11 == "{\"score\": 11, \"feedback\": \"good\", \"suggestions\": \"more\"}"
DOC_NO_FEEDBACK == "{\"score\": 7, \"suggestions\": \"more\"}"
DOC_NUMBER == "5"

Documents ==
    { DOC_VALID, DOC_SCORE_1, DOC_SCORE_10, DOC_SCORE_0, DOC_SCORE_11, DOC_NO_FEEDBACK,
      DOC_NUMBER }

JsonObject(score, keys) == [type |-> "object", keys |-> keys, score |-> score]

\* The value a document denotes.
JsonValue(doc) ==
    CASE doc = DOC_VALID -> JsonObject(7, {"score", "feedback", "suggestions"})
      [] doc = DOC_SCORE_1 -> JsonObject(1, {"score", "feedback", "suggestions"})
      [] doc = DOC_SCORE_10 -> JsonObject(10, {"score", "feedback", "suggestions"})
      [] doc = DOC_SCORE_0 -> JsonObject(0, {"score", "feedback", "suggestions"})
      [] doc = DOC_SCORE_11 -> JsonObject(11, {"score", "feedback", "suggestions"})
      [] doc = DOC_NO_FEEDBACK -> JsonObject(7, {"score", "suggestions"})
      [] OTHER -> [type |-> "number", keys |-> {}, score |-> 0]

\* json.loads: a text that is exactly one document parses; the empty text, words, and a
\* document followed by anything else raise JSONDecodeError.
json_loads(text) ==
    IF Len(text) = 1 /\ text[1] \in Documents
    THEN [ok |-> TRUE, value |-> JsonValue(text[1])]
    ELSE [ok |-> FALSE, value |-> JsonValue(DOC_NUMBER)]

\* EvaluationResult(**data) validates: an object with the required fields and a score
\* in MIN_SCORE..MAX_SCORE.
Validates(value) ==
    /\ value.type = "object"
    /\ {"score", "feedback", "suggestions"} \subseteq value.keys
    /\ value.score >= MIN_SCORE
    /\ value.score <= MAX_SCORE

EvaluationResult(score, feedback, suggestions, strengths, weaknesses) ==
    [ score |-> score, feedback |-> feedback, suggestions |-> suggestions,
      follow_up |-> None, strengths |-> strengths, weaknesses |-> weaknesses ]

\* len(text.split()): the maximal runs of tokens that are not whitespace.
WordCount(text) ==
    Cardinality({ i \in 1..Len(text) : text[i] # " " /\ (i = 1 \/ text[i - 1] = " ") })

Min(a, b) == IF a <= b THEN a ELSE b

\* text[:n]
Take(text, n) == SubSeq(text, 1, Min(n, Len(text)))

\* The fallback score without the lower clamp.
FallbackScoreUnclamped(user_answer) == Min(WordCount(user_answer) \div WORDS_PER_POINT, MAX_SCORE)

FallbackScore(user_answer) ==
    Min(Max(WordCount(user_answer) \div WORDS_PER_POINT, MIN_SCORE), MAX_SCORE)

_create_fallback_evaluation(user_answer, llm_response) ==
    EvaluationResult(FallbackScore(user_answer),
                     <<"Evaluation completed. ">> \o Take(llm_response, FEEDBACK_CHARS)
                         \o <<"...">>,
                     <<"Please provide more detailed explanations and examples.">>,
                     <<"Provided an answer">>,
                     <<"Could be more detailed">>)

\* None when the request raises, when the reply is not text and when the parsed JSON
\* does not validate; the fallback only on JSONDecodeError.
evaluate_answer(user_answer, reply) ==
    IF reply.kind # "text" THEN None
    ELSE LET response_text == strip(reply.text)
             parsed == json_loads(response_text)
         IN  IF ~parsed.ok
             THEN Some(_create_fallback_evaluation(user_answer, response_text))
             ELSE IF Validates(parsed.value)
             THEN Some(EvaluationResult(parsed.value.score, <<"good">>, <<"more">>,
                                        <<>>, <<>>))
             ELSE None

\* n words separated by single blanks.
AnswerOfWords(n) == [i \in 1..(IF n = 0 THEN 0 ELSE 2 * n - 1) |->
                        IF i % 2 = 1 THEN "w" ELSE " "]

UserAnswers ==
    { AnswerOfWords(n) : n \in 0..MaxAnswerWords } \cup { <<" ", " ">>, <<"w", "w">> }

\* A reply of n characters that is not JSON.
LongText(n) == [i \in 1..n |-> CASE i % 3 = 0 -> "x" [] i % 3 = 1 -> "y" [] OTHER -> "z"]

EvaluationTexts ==
    { <<>>, <<" ">>, <<"Great", " ", "answer">>, <<" ", "Great", " ">> }
        \cup { <<doc>> : doc \in Documents }
        \cup { <<" ", doc, " ">> : doc \in Documents }
        \cup { <<doc, "Great">> : doc \in Documents }
        \cup { LongText(n) : n \in (FEEDBACK_CHARS - 1)..MaxResponseLen }

EvaluationOutcomes == { LLMRaise, LLMNonText } \cup { LLMText(t) : t \in EvaluationTexts }

InitEvaluate ==
    /\ conversation_state = ConversationState(0)
    /\ action = None
    /\ last_call = None
    /\ fu_since_question = 0
    /\ fu_on_current = 0
    /\ llm_reply = None
    /\ analyzed = None
    /\ eval_answer \in { Some(a) : a \in UserAnswers }
    /\ eval_response \in { Some(r) : r \in EvaluationOutcomes }
    /\ eval_result = None
    /\ ComponentsIdle
    /\ ServerInit
    /\ AudioInit
    /\ now = 0

\* The call returns; the model keeps what it returned, None included.
EvaluateAnswer ==
    /\ eval_result = None
    /\ eval_result' = Some([value |-> evaluate_answer(Val(eval_answer), Val(eval_response))])
    /\ UNCHANGED <<conversation_state, action, last_call, fu_since_question, fu_on_current,
                   llm_reply, analyzed, eval_answer, eval_response, qm_call,
                   session_logger, inbox, tasks, now, server_vars, audio_vars>>

EvaluateNext == EvaluateAnswer

SpecEvaluate == InitEvaluate /\ [][EvaluateNext]_vars

---------------------------------------------------------------------------
(* QuestionManager *)

\* The loaded question bank.
QUESTIONS ==
    << [id |-> "q001", text |-> <<"What is object-oriented programming?">>,
        topic |-> "programming", difficulty |-> 1],
       [id |-> "q002", text |-> <<"What is a hash table?">>,
        topic |-> "algorithms", difficulty |-> 1],
       [id |-> "q003", text |-> <<"What is a closure?">>,
        topic |-> "programming", difficulty |-> 2] >>

InSeq(x, seq) == \E i \in 1..Len(seq) : seq[i] = x

\* The filters without the exclusion of used questions.
filter_questions_with_used(used, topics, difficulty) ==
    LET Keep(q) == /\ (topics # <<>> => InSeq(q.topic, topics))
                   /\ (difficulty # None => q.difficulty = Val(difficulty))
    IN  SelectSeq(QUESTIONS, Keep)

\* The questions that pass the filters, in bank order: topics None and [] mean no topic
\* filter, difficulty None no difficulty filter.
filter_questions(used, topics, difficulty) ==
    LET Keep(q) == /\ (topics # <<>> => InSeq(q.topic, topics))
                   /\ (difficulty # None => q.difficulty = Val(difficulty))
                   /\ ~InSeq(q.id, used)
    IN  SelectSeq(QUESTIONS, Keep)

\* random.choice: any of the available questions may be selected.
select_question_choices(used, topics, difficulty) ==
    LET available == filter_questions(used, topics, difficulty)
    IN  { available[i] : i \in 1..Len(available) }

\* The arguments of the calls made on a QuestionManager: topics None and [] both
\* mean no topic filter; the difficulty is left out or given.
TopicArguments ==
    { <<>>, <<"programming">>, <<"programming", "algorithms">>, <<"networks">> }
DifficultyArguments == { None, Some(1), Some(2) }

QmCalls == IF qm_call = None THEN 0 ELSE Val(qm_call).n

QmCalled(op, topics, difficulty, result) ==
    /\ QmCalls < MaxQmCalls
    /\ qm_call' = Some([n |-> QmCalls + 1, op |-> op, topics |-> topics,
                        difficulty |-> difficulty, result |-> result])
    /\ UNCHANGED <<conversation_state, action, last_call, fu_since_question, fu_on_current,
                   llm_reply, analyzed, eval_answer, eval_response, eval_result,
                   session_logger, inbox, tasks, now, active_sessions, sessions_created,
                   connections, request, response, calls, audio_vars>>

\* select_question(topics, difficulty): None when nothing is available, else one of
\* the available questions, whose id is appended to used_questions.
select_question(topics, difficulty) ==
    LET available == select_question_choices(used_questions, topics, difficulty)
    IN  IF available = {}
        THEN /\ QmCalled("select_question", topics, difficulty, None)
             /\ UNCHANGED used_questions
        ELSE \E choice \in available :
                /\ QmCalled("select_question", topics, difficulty, Some(choice))
                /\ used_questions' = Append(used_questions, choice.id)

\* filter_questions(topics, difficulty, exclude_used)
filter_questions_call(topics, difficulty, exclude_used) ==
    /\ QmCalled("filter_questions", topics, difficulty,
                Some(filter_questions(IF exclude_used THEN used_questions ELSE <<>>,
                                      topics, difficulty)))
    /\ UNCHANGED used_questions

reset_used_questions ==
    /\ QmCalled("reset_used_questions", <<>>, None, None)
    /\ used_questions' = <<>>

QuestionsNext ==
    \/ \E topics \in TopicArguments, difficulty \in DifficultyArguments :
           select_question(topics, difficulty)
    \/ \E topics \in TopicArguments, difficulty \in DifficultyArguments,
          exclude_used \in BOOLEAN :
           filter_questions_call(topics, difficulty, exclude_used)
    \/ reset_used_questions

SpecQuestions == Init /\ [][QuestionsNext]_vars

---------------------------------------------------------------------------
(* SessionLogger *)

QuestionResponse(question_id, question_text, question_topic, question_difficulty) ==
    [ question_id |-> question_id,
      question_text |-> question_text,
      question_topic |-> question_topic,
      question_difficulty |-> question_difficulty,
      user_answer |-> <<>>,
      transcription_confidence |-> None,
      response_duration |-> None,
      llm_score |-> None,
      follow_up_question |-> None,
      follow_up_answer |-> None ]

SessionLogger(session_id, t) ==
    [ session_id |-> session_id,
      start_time |-> t,
      end_time |-> None,
      user_preferences |-> None,
      questions_asked |-> <<>>,
      session_summary |-> None,
      total_duration |-> None ]

\* ", ".join(topics) raises when topics is not a list of strings.
set_user_preferences(lg, topics, difficulty, interview_duration) ==
    [lg |-> [lg EXCEPT !.user_preferences =
                Some([topics |-> topics, difficulty |-> difficulty,
                      interview_duration |-> interview_duration])],
     raised |-> topics = None]

\* The entry built and not appended.
add_question_response_dropped(lg, question_id, question_text, question_topic, question_difficulty) ==
    lg

add_question_response(lg, question_id, question_text, question_topic, question_difficulty) ==
    [lg EXCEPT !.questions_asked =
        Append(@, QuestionResponse(question_id, question_text, question_topic,
                                   question_difficulty))]

\* The index of the first entry with this question id, 0 when there is none.
FindQuestion(lg, question_id) ==
    LET hits == {i \in 1..Len(lg.questions_asked) :
                    lg.questions_asked[i].question_id = question_id}
    IN  IF hits = {} THEN 0 ELSE CHOOSE i \in hits : \A j \in hits : i <= j

\* The first entry with this id takes the answer, the confidence and the duration; with
\* no such entry nothing is written.
log_user_response(lg, question_id, user_answer, transcription_confidence, response_duration) ==
    LET i == FindQuestion(lg, question_id)
    IN  IF i = 0 THEN lg
        ELSE [lg EXCEPT !.questions_asked[i].user_answer = user_answer,
                        !.questions_asked[i].transcription_confidence =
                            transcription_confidence,
                        !.questions_asked[i].response_duration = response_duration]

RECURSIVE SumSeq(_)
SumSeq(seq) == IF seq = <<>> THEN 0 ELSE Head(seq) + SumSeq(Tail(seq))

MaxSeq(seq) == CHOOSE x \in {seq[i] : i \in 1..Len(seq)} : \A j \in 1..Len(seq) : x >= seq[j]
MinSeq(seq) == CHOOSE x \in {seq[i] : i \in 1..Len(seq)} : \A j \in 1..Len(seq) : x <= seq[j]

\* 2^e modulo m.
RECURSIVE PowerOfTwoMod(_, _)
PowerOfTwoMod(e, m) == IF e = 0 THEN 1 % m ELSE (2 * PowerOfTwoMod(e - 1, m)) % m

\* The binary exponent of the quotient: the k with 2^k <= num / den < 2^(k + 1).
RECURSIVE BinaryExponent(_, _)
BinaryExponent(num, den) ==
    IF num >= 2 * den THEN 1 + BinaryExponent(num, 2 * den)
    ELSE IF num < den THEN BinaryExponent(2 * num, den) - 1
    ELSE 0

\* round(num / den, 2), in hundredths. The quotient is a float of 53 significant bits
\* and round() rounds that float: where the exact quotient lies halfway between two
\* hundredths (it is m / 200 with m odd), the float is the quotient itself when 200
\* divides m * 2^e, e = 52 - exponent, and round() takes the even neighbour; else the
\* float lies below or above the midpoint as m * 2^e modulo 200 is below or above 100.
Round2(num, den) ==
    LET q == (100 * num) \div den
        r == (100 * num) % den
        m == (200 * num) \div den
        rest == (m * PowerOfTwoMod(52 - BinaryExponent(num, den), 200)) % 200
    IN  IF 2 * r < den THEN q
        ELSE IF 2 * r > den THEN q + 1
        ELSE IF rest = 0 THEN (IF q % 2 = 0 THEN q ELSE q + 1)
        ELSE IF rest < 100 THEN q
        ELSE q + 1

\* The scores with an entry that has none counted as 0.
ScoresWithUnscoredAsZero(entries) ==
    [i \in 1..Len(entries) |->
        IF entries[i].llm_score = None THEN 0 ELSE Val(entries[i].llm_score)]

Scores(entries) ==
    LET scored == SelectSeq(entries, LAMBDA qr : qr.llm_score # None)
    IN  [i \in 1..Len(scored) |-> Val(scored[i].llm_score)]

_generate_session_summary(lg) ==
    LET entries == lg.questions_asked
        scores == Scores(entries)
        topics == {entries[i].question_topic : i \in 1..Len(entries)}
        OfTopic(topic) == SelectSeq(entries, LAMBDA qr : qr.question_topic = topic)
        \* avg_score >= k, for the average of the scores (0 when there are none)
        AvgAtLeast(k) == IF scores = <<>> THEN 0 >= k
                         ELSE SumSeq(scores) >= k * Len(scores)
    IN  IF Len(entries) = 0
        THEN [error |-> "No questions were asked in this session"]
        ELSE [ session_duration_minutes |-> Val(lg.total_duration),  \* in ticks
               questions_asked |-> Len(entries),
               questions_evaluated |-> Len(scores),
               score_statistics |->
                   IF scores = <<>> THEN None
                   ELSE Some([ average |-> Round2(SumSeq(scores), Len(scores)),
                               highest |-> MaxSeq(scores),
                               lowest |-> MinSeq(scores),
                               total_evaluated |-> Len(scores) ]),
               performance_level |->
                   IF AvgAtLeast(8) THEN "Excellent"
                   ELSE IF AvgAtLeast(6) THEN "Good"
                   ELSE IF AvgAtLeast(4) THEN "Average"
                   ELSE "Needs Improvement",
               topics_covered |->
                   [topic \in topics |->
                       [ count |-> Len(OfTopic(topic)),
                         avg_score |-> IF Scores(OfTopic(topic)) = <<>> THEN 0
                                       ELSE Round2(SumSeq(Scores(OfTopic(topic))),
                                                   Len(Scores(OfTopic(topic)))),
                         scores |-> Scores(OfTopic(topic)) ]],
               user_preferences |-> lg.user_preferences,
               follow_ups_generated |->
                   Len(SelectSeq(entries, LAMBDA qr : Truthy(qr.follow_up_question))),
               follow_ups_answered |->
                   Len(SelectSeq(entries, LAMBDA qr : Truthy(qr.follow_up_answer))) ]

\* summary['session_duration_minutes'] raises KeyError on the no-questions summary.
_display_final_summary_raises(summary) == "session_duration_minutes" \notin DOMAIN summary

\* [lg, raised]: the logger after end_session, and whether the call raised.
SessionLogger_end_session(lg, t) ==
    LET lg1 == [lg EXCEPT !.end_time = Some(t),
                          !.total_duration = Some(t - lg.start_time)]
        lg2 == [lg1 EXCEPT !.session_summary = Some(_generate_session_summary(lg1))]
    IN  [lg |-> lg2, raised |-> _display_final_summary_raises(Val(lg2.session_summary))]

\* [lg, raised]: the first entry with this id takes the evaluation's score and follow-up
\* question; with no such entry, or no evaluation, nothing is written. The log line after
\* the write reads evaluation_result.score, so a call without an evaluation raises.
log_evaluation_result(lg, question_id, evaluation_result) ==
    LET i == FindQuestion(lg, question_id)
    IN  [lg |-> IF i = 0 \/ evaluation_result = None THEN lg
                ELSE [lg EXCEPT !.questions_asked[i].llm_score =
                                    Some(Val(evaluation_result).score),
                                !.questions_asked[i].follow_up_question =
                                    Val(evaluation_result).follow_up],
         raised |-> evaluation_result = None]

log_follow_up_response(lg, question_id, follow_up_answer) ==
    LET i == FindQuestion(lg, question_id)
    IN  IF i = 0 THEN lg
        ELSE [lg EXCEPT !.questions_asked[i].follow_up_answer = Some(follow_up_answer)]

---------------------------------------------------------------------------
(* A SessionLogger driven by itself: preferences are set, entries are added,   *)
(* answered and evaluated and the session is ended, in any order: no method   *)
(* looks at end_time.                                                         *)

\* Topics handed to set_user_preferences: a list, or None.
PreferredTopics == { None, Some(<<"programming">>) }

\* Answers handed to log_user_response, each with its response_duration in seconds.
LoggedAnswers == { [user_answer |-> <<"hello">>, response_duration |-> Some(1)] }

\* Evaluations handed to log_evaluation_result: none, or a score with or without a
\* follow-up question.
LoggedEvaluations ==
    { None }
        \cup { Some([score |-> sc, follow_up |-> fu]) :
                 sc \in {2, 9}, fu \in {None, Some(<<"Why?">>)} }

\* The bank questions add_question_response is called with; the ids the other calls
\* name are those of the whole bank, so some name no entry.
LoggedQuestions == { i \in 1..Len(QUESTIONS) : i <= MaxLoggedIds }

FollowUpAnswers == { <<>>, <<"Because">> }

QuestionIds == { QUESTIONS[i].id : i \in 1..Len(QUESTIONS) }

LoggerUnchanged ==
    UNCHANGED <<conversation_state, action, last_call, fu_since_question, fu_on_current,
                llm_reply, analyzed, eval_answer, eval_response, eval_result, qm_call,
                inbox, tasks, now, server_vars, audio_vars>>

\* session_logger holds the session and the last call on the logger: the method, whether
\* it raised, and how many calls were made on the session since it was first ended.
LoggerCall == session_logger[2]

\* The calls already made on the ended session; a call on it is one more.
LateCalls == IF Val(session_logger).end_time = None THEN 0 ELSE LoggerCall.late + 1

Called(lg, op, raised) ==
    <<lg, [op |-> op, raised |-> raised, late |-> LateCalls]>>

\* The session is constructed; calls on an ended session are counted up to the bound.
Logging == session_logger # None /\ LateCalls <= MaxLateCalls

SessionLogger_init ==
    /\ session_logger = None
    /\ session_logger' =
           <<SessionLogger(1, now), [op |-> "__init__", raised |-> FALSE, late |-> 0]>>
    /\ LoggerUnchanged

LoggerAddQuestion(i) ==
    /\ Logging
    /\ Len(Val(session_logger).questions_asked) < MaxLoggedQuestions
    /\ session_logger' =
           Called(add_question_response(Val(session_logger), QUESTIONS[i].id,
                                        QUESTIONS[i].text, QUESTIONS[i].topic,
                                        QUESTIONS[i].difficulty),
                  "add_question_response", FALSE)
    /\ LoggerUnchanged

LoggerPreferences(topics) ==
    LET r == set_user_preferences(Val(session_logger), topics, 1, 2)
    IN  /\ Logging
        /\ session_logger' = Called(r.lg, "set_user_preferences", r.raised)
        /\ LoggerUnchanged

\* log_question_asked only writes to the log.
LoggerQuestionAsked ==
    /\ Logging
    /\ session_logger' = Called(Val(session_logger), "log_question_asked", FALSE)
    /\ LoggerUnchanged

LoggerUserResponse(question_id, answer) ==
    /\ Logging
    /\ session_logger' =
           Called(log_user_response(Val(session_logger), question_id, answer.user_answer,
                                    None, answer.response_duration),
                  "log_user_response", FALSE)
    /\ LoggerUnchanged

LoggerEvaluation(question_id, evaluation_result) ==
    LET r == log_evaluation_result(Val(session_logger), question_id, evaluation_result)
    IN  /\ Logging
        /\ session_logger' = Called(r.lg, "log_evaluation_result", r.raised)
        /\ LoggerUnchanged

LoggerFollowUp(question_id, follow_up_answer) ==
    /\ Logging
    /\ session_logger' =
           Called(log_follow_up_response(Val(session_logger), question_id, follow_up_answer),
                  "log_follow_up_response", FALSE)
    /\ LoggerUnchanged

LoggerEndSession ==
    LET r == SessionLogger_end_session(Val(session_logger), now)
    IN  /\ Logging
        /\ session_logger' = Called(r.lg, "end_session", r.raised)
        /\ LoggerUnchanged

LoggerNext ==
    \/ SessionLogger_init
    \/ \E topics \in PreferredTopics : LoggerPreferences(topics)
    \/ LoggerQuestionAsked
    \/ \E i \in LoggedQuestions : LoggerAddQuestion(i)
    \/ \E question_id \in QuestionIds, answer \in LoggedAnswers :
           LoggerUserResponse(question_id, answer)
    \/ \E question_id \in QuestionIds, evaluation_result \in LoggedEvaluations :
           LoggerEvaluation(question_id, evaluation_result)
    \/ \E question_id \in QuestionIds, follow_up_answer \in FollowUpAnswers :
           LoggerFollowUp(question_id, follow_up_answer)
    \/ LoggerEndSession

SpecLogger == Init /\ [][LoggerNext]_vars

---------------------------------------------------------------------------
(* WebSocketInterviewServer: inbound messages *)

Connections == 1..MaxConnections
SessionIds == 1..MaxSessions
Durations == 1..MaxDuration

RecognizedTypes ==
    {"start_session", "get_question", "submit_audio", "process_audio",
     "text_to_speech", "get_topics", "end_session"}

\* session_id fields: absent, an id that is never issued (0), or an id the server may issue.
SessionIdFields == {None, Some(0)} \cup {Some(i) : i \in SessionIds}

Message(type, fields) == [frame |-> "object", type |-> type] @@ fields

StartMessages ==
    { Message(Some("start_session"),
              [topics |-> tp, difficulty |-> 1, interview_duration |-> dur]) :
        tp \in {Some(<<>>), Some(<<"programming">>)}, dur \in Durations }
    \cup
    \* "topics": null
    { Message(Some("start_session"),
              [topics |-> None, difficulty |-> 1, interview_duration |-> 1]) }

SessionMessages(type) == { Message(Some(type), [session_id |-> sid]) : sid \in SessionIdFields }

\* audio_data: absent, or a base64 payload.
AudioMessages ==
    { Message(Some(type), [session_id |-> sid, audio_data |-> a]) :
        type \in {"submit_audio", "process_audio"}, sid \in SessionIdFields,
        a \in {None, Some("UklGRg==")} }

SpeechMessages == { Message(Some("text_to_speech"), [text |-> t]) : t \in {<<>>, <<"hi">>} }

\* Objects whose type is missing or not recognized.
UnknownMessages ==
    { Message(None, [session_id |-> Some(1)]),
      Message(Some("bogus"), [session_id |-> Some(1)]) }

\* Frames that are not JSON, and JSON that is not an object.
InvalidJsonFrame == [frame |-> "invalid_json", type |-> None]
NonObjectFrame == [frame |-> "non_object", type |-> None]

ErrorResponse(message) == [type |-> "error", message |-> message]

SessionNotFoundUnreported == [type |-> "ok", message |-> "Session not found"]

\* What a handler returns when active_sessions.get(session_id) finds nothing.
SessionNotFound == ErrorResponse("Session not found")

\* Outcomes of transcribe_audio: a transcript, or "" when both attempts fail.
TranscribeOutcomes == { <<>>, <<"hello">> }

\* Outcomes of text_to_speech_direct: base64 audio, or "" on failure.
SpeechOutcomes == { "", "QVVESU8=" }

\* Outcomes of the synthesis call for text_to_speech: it raises, returns no response (or
\* one with neither content nor stream), or returns audio, "" for empty audio.
SynthesisOutcomes == { "raise", "none" } \cup SpeechOutcomes

Remove(f, k) == [x \in DOMAIN f \ {k} |-> f[x]]

Lookup(session_id) ==
    IF session_id # None /\ Val(session_id) \in DOMAIN active_sessions
    THEN Some(active_sessions[Val(session_id)])
    ELSE None

\* handle_client sends one frame for the message: the handler's response, or the error
\* of its except clauses.
Sent(c, m, frame, called) ==
    /\ request' = Some([conn |-> c, message |-> m])
    /\ response' = <<frame>>
    /\ calls' = called

---------------------------------------------------------------------------
(* WebSocketInterviewServer: handlers.  Each action is handle_client taking one *)
(* frame from an open connection, process_message routing it, and the handler.  *)

Connect(c) ==
    /\ c \notin connections
    /\ connections' = connections \cup {c}
    /\ UNCHANGED <<active_sessions, used_questions, sessions_created, request, response,
                   calls, now, dialogue_vars, audio_vars>>

\* handle_client's finally clause: its local session_id is never assigned.
Disconnect(c) ==
    LET session_id == None
    IN  /\ c \in connections
        /\ connections' = connections \ {c}
        /\ active_sessions' =
               IF session_id # None /\ Val(session_id) \in DOMAIN active_sessions
               THEN Remove(active_sessions, Val(session_id))
               ELSE active_sessions
        /\ UNCHANGED <<used_questions, sessions_created, request, response, calls, now,
                       dialogue_vars, audio_vars>>

Tick ==
    /\ now < MaxTime
    /\ now' = now + 1
    /\ UNCHANGED <<server_vars, dialogue_vars, audio_vars>>

InvalidJsonClosesConnection(c) ==
    /\ c \in connections
    /\ Sent(c, InvalidJsonFrame, ErrorResponse("Invalid JSON format"), {})
    /\ connections' = connections \ {c}
    /\ UNCHANGED <<active_sessions, used_questions, sessions_created, now,
                   dialogue_vars, audio_vars>>

\* json.loads raises JSONDecodeError.
InvalidJson(c) ==
    /\ c \in connections
    /\ Sent(c, InvalidJsonFrame, ErrorResponse("Invalid JSON format"), {})
    /\ UNCHANGED <<active_sessions, used_questions, sessions_created, connections, now,
                   dialogue_vars, audio_vars>>

\* data.get raises AttributeError, which handle_client reports.
NonObject(c) ==
    /\ c \in connections
    /\ Sent(c, NonObjectFrame, ErrorResponse("object has no attribute 'get'"), {})
    /\ UNCHANGED <<active_sessions, used_questions, sessions_created, connections, now,
                   dialogue_vars, audio_vars>>

\* process_message's else branch: data.get("type") is None or no recognized type.
Unrecognized(m) == IF m.type = None THEN TRUE ELSE Val(m.type) \notin RecognizedTypes

UnknownType(c, m) ==
    /\ c \in connections
    /\ Unrecognized(m)
    /\ Sent(c, m, ErrorResponse("Unknown message type"), {})
    /\ UNCHANGED <<active_sessions, used_questions, sessions_created, connections, now,
                   dialogue_vars, audio_vars>>

\* `limit` bounds the sessions one server starts.
start_session(c, m, limit) ==
    LET session_id == sessions_created + 1      \* a fresh uuid4
        pref == set_user_preferences(SessionLogger(session_id, now), m.topics,
                                     m.difficulty, m.interview_duration)
        session_ai_manager ==
            [ConversationState(now) EXCEPT
                !.duration_minutes = m.interview_duration,
                !.topics_covered = AddTopics(<<>>, Val(m.topics))]
    IN  /\ c \in connections
        /\ m.type = Some("start_session")
        /\ sessions_created < limit
        /\ sessions_created' = session_id
        /\ IF pref.raised
           THEN /\ Sent(c, m, ErrorResponse("Failed to start session"), {})
                /\ UNCHANGED active_sessions
           ELSE /\ active_sessions' =
                       (session_id :>
                           [ logger |-> pref.lg,
                             topics |-> Val(m.topics),
                             difficulty |-> m.difficulty,
                             interview_duration |-> m.interview_duration,
                             start_time |-> now,
                             questions_asked |-> 0,
                             websocket |-> c,
                             evaluations |-> <<>>,
                             ai_manager |-> session_ai_manager ]) @@ active_sessions
                /\ Sent(c, m, [ type |-> "session_started",
                                session_id |-> session_id,
                                topics |-> Val(m.topics),
                                difficulty |-> m.difficulty,
                                interview_duration |-> m.interview_duration ], {})
        /\ UNCHANGED <<used_questions, connections, now, dialogue_vars, audio_vars>>

\* Whether get_question finds the interview time elapsed.
TimeElapsed(session, t) ==
    t - session.start_time >= session.interview_duration * TicksPerMinute

\* `choice` is what random.choice picks when a question is available.
get_question(c, m, choice) ==
    LET found == Lookup(m.session_id)
        session == Val(found)
        sid == Val(m.session_id)
        available == select_question_choices(used_questions, session.topics,
                                             Some(session.difficulty))
        remaining_time == session.interview_duration * TicksPerMinute
                              - (now - session.start_time)
    IN  /\ c \in connections
        /\ m.type = Some("get_question")
        /\ IF found = None
           THEN /\ Sent(c, m, SessionNotFound, {})
                /\ UNCHANGED <<active_sessions, used_questions>>
           ELSE IF TimeElapsed(session, now)
           THEN /\ Sent(c, m, [type |-> "interview_complete",
                               message |-> "Interview time completed"], {})
                /\ UNCHANGED <<active_sessions, used_questions>>
           ELSE IF available = {}
           THEN /\ Sent(c, m, ErrorResponse("No more questions available"), {})
                /\ UNCHANGED <<active_sessions, used_questions>>
           ELSE /\ choice \in available
                /\ used_questions' = Append(used_questions, choice.id)
                /\ active_sessions' =
                       [active_sessions EXCEPT
                           ![sid].logger = add_question_response(@, choice.id, choice.text,
                                                                 choice.topic,
                                                                 choice.difficulty),
                           ![sid].questions_asked = @ + 1]
                /\ Sent(c, m, [ type |-> "question",
                                question_id |-> choice.id,
                                question_text |-> choice.text,
                                question_topic |-> choice.topic,
                                question_difficulty |-> choice.difficulty,
                                question_number |-> session.questions_asked + 1,
                                remaining_time_minutes |-> remaining_time \div TicksPerMinute,
                                remaining_time_seconds |-> remaining_time % TicksPerMinute,
                                interview_duration |-> session.interview_duration ], {})
        /\ UNCHANGED <<sessions_created, connections, now, dialogue_vars, audio_vars>>

SessionContext(session) ==
    [ keys |-> {"interview_duration", "topics"},
      interview_duration |-> session.interview_duration,
      topics |-> Some(session.topics) ]

\* The external calls process_user_speech makes: the reasoning service.
process_audio(c, m, transcript, ir, ev, dec, gen, audio) ==
    LET found == Lookup(m.session_id)
        session == Val(found)
        sid == Val(m.session_id)
        r == process_user_speech(session.ai_manager, transcript, SessionContext(session),
                                 ir, ev, dec, gen)
    IN  /\ c \in connections
        /\ m.type \in {Some("submit_audio"), Some("process_audio")}
        /\ IF found = None
           THEN /\ Sent(c, m, SessionNotFound, {})
                /\ UNCHANGED active_sessions
           ELSE IF m.audio_data = None          \* base64.b64decode(None) raises
           THEN /\ Sent(c, m, ErrorResponse("Failed to process audio"), {})
                /\ UNCHANGED active_sessions
           ELSE IF transcript = <<>>
           THEN /\ Sent(c, m, ErrorResponse("Failed to transcribe audio"), {"transcribe"})
                /\ UNCHANGED active_sessions
           ELSE IF should_end_interview(session.ai_manager, now)
           THEN /\ Sent(c, m, [type |-> "interview_complete",
                               message |-> "Interview time completed"], {"transcribe"})
                /\ UNCHANGED active_sessions
           ELSE /\ active_sessions' =
                       [active_sessions EXCEPT
                           ![sid].ai_manager = r.cs,
                           ![sid].logger = log_user_response(@, "conversation", transcript,
                                                             None, None)]
                /\ Sent(c, m, [ type |-> "ai_conversation",
                                transcript |-> transcript,
                                response_text |-> r.response.text,
                                response_audio |-> audio,
                                response_type |-> r.response.type,
                                auto_play |-> TRUE ],
                        {"transcribe", "reasoning", "synthesis"})
        /\ UNCHANGED <<used_questions, sessions_created, connections, now, dialogue_vars, audio_vars>>

\* outcome: one of SynthesisOutcomes.
text_to_speech(c, m, outcome) ==
    /\ c \in connections
    /\ m.type = Some("text_to_speech")
    /\ IF m.text = <<>>
       THEN Sent(c, m, ErrorResponse("No text provided for speech synthesis"), {})
       ELSE IF outcome = "raise"
       THEN Sent(c, m, ErrorResponse("Failed to generate speech"), {"synthesis"})
       ELSE IF outcome = "none"
       THEN Sent(c, m, ErrorResponse("No audio data received"), {"synthesis"})
       ELSE IF outcome = ""
       THEN Sent(c, m, ErrorResponse("Empty audio data generated"), {"synthesis"})
       ELSE Sent(c, m, [type |-> "audio", audio_data |-> outcome], {"synthesis"})
    /\ UNCHANGED <<active_sessions, used_questions, sessions_created, connections, now,
                   dialogue_vars, audio_vars>>

get_topics(c, m) ==
    /\ c \in connections
    /\ m.type = Some("get_topics")
    /\ Sent(c, m, [ type |-> "topics",
                    topics |-> {QUESTIONS[i].topic : i \in 1..Len(QUESTIONS)},
                    difficulty_range |->
                        << MinSeq([i \in 1..Len(QUESTIONS) |-> QUESTIONS[i].difficulty]),
                           MaxSeq([i \in 1..Len(QUESTIONS) |-> QUESTIONS[i].difficulty]) >> ],
            {})
    /\ UNCHANGED <<active_sessions, used_questions, sessions_created, connections, now,
                   dialogue_vars, audio_vars>>

\* The answers in the conversation history, as end_session reports them.
Evaluations(history) ==
    LET idx == SelectSeq([i \in 1..Len(history) |-> i],
                         LAMBDA i : history[i].intent = "answering_question")
    IN  [k \in 1..Len(idx) |->
            [ question_number |-> idx[k],
              transcript |-> history[idx[k]].user_input,
              ai_response |-> history[idx[k]].ai_response ]]

end_session(c, m) ==
    LET found == Lookup(m.session_id)
        session == Val(found)
        sid == Val(m.session_id)
        conversation_history == session.ai_manager.conversation_history
        evaluations == Evaluations(conversation_history)
        ended == SessionLogger_end_session(session.logger, now)
    IN  /\ c \in connections
        /\ m.type = Some("end_session")
        /\ IF found = None
           THEN /\ Sent(c, m, SessionNotFound, {})
                /\ UNCHANGED active_sessions
           ELSE IF ended.raised
           THEN /\ active_sessions' = [active_sessions EXCEPT ![sid].logger = ended.lg]
                /\ Sent(c, m, ErrorResponse("Failed to end session"), {})
           ELSE /\ active_sessions' = Remove(active_sessions, sid)
                /\ Sent(c, m, [ type |-> "session_ended",
                                summary |-> ended.lg.session_summary,
                                conversation_history |-> conversation_history,
                                evaluations |-> evaluations,
                                total_questions |-> Len(evaluations) ], {})
        /\ UNCHANGED <<used_questions, sessions_created, connections, now, dialogue_vars, audio_vars>>

\* The reasoning calls are made only once the utterance is handed to the policy, and
\* the evaluation and the decision only for an answer to a current question.
Spoken(m, transcript) ==
    LET found == Lookup(m.session_id)
    IN  /\ found # None
        /\ m.audio_data # None
        /\ transcript # <<>>
        /\ ~should_end_interview(Val(found).ai_manager, now)

ProcessAudioStep(c, m, limit) ==
    \E transcript \in TranscribeOutcomes :
        LET spoken == Spoken(m, transcript)
        IN  /\ spoken =>
                   Len(Val(Lookup(m.session_id)).ai_manager.conversation_history) < limit
            /\ \E ir \in (IF spoken THEN IntentReplies ELSE {NotCalled}) :
                LET asked == /\ spoken
                             /\ Evaluates(Val(Lookup(m.session_id)).ai_manager,
                                          SessionContext(Val(Lookup(m.session_id))), ir)
                IN  \E ev \in (IF asked THEN EvalOutcomes ELSE {NotCalled}),
                       dec \in (IF asked THEN DecisionReplies ELSE {NotCalled}),
                       gen \in (IF spoken THEN GenReplies ELSE {NotCalled}),
                       audio \in (IF spoken THEN SpeechOutcomes ELSE {""}) :
                        process_audio(c, m, transcript, ir, ev, dec, gen, audio)

GetQuestionStep(c, m) ==
    LET found == Lookup(m.session_id)
        available == IF found = None THEN {}
                     ELSE select_question_choices(used_questions, Val(found).topics,
                                                  Some(Val(found).difficulty))
    IN  \E choice \in (IF available = {} THEN {None} ELSE available) :
            get_question(c, m, choice)

Next ==
    \/ Tick
    \/ \E c \in Connections : Connect(c)
    \/ \E c \in Connections : Disconnect(c)
    \/ \E c \in Connections : InvalidJson(c)
    \/ \E c \in Connections : NonObject(c)
    \/ \E c \in Connections, m \in UnknownMessages : UnknownType(c, m)
    \/ \E c \in Connections, m \in StartMessages : start_session(c, m, MaxSessions)
    \/ \E c \in Connections, m \in SessionMessages("get_question") : GetQuestionStep(c, m)
    \/ \E c \in Connections, m \in AudioMessages :
           ProcessAudioStep(c, m, MaxServerExchanges)
    \/ \E c \in Connections, m \in SpeechMessages, outcome \in SynthesisOutcomes :
           text_to_speech(c, m, outcome)
    \/ \E c \in Connections, m \in {Message(Some("get_topics"), <<>>)} : get_topics(c, m)
    \/ \E c \in Connections, m \in SessionMessages("end_session") : end_session(c, m)

Spec == Init /\ [][Next]_vars

---------------------------------------------------------------------------
(* One client running its interview: it starts a session and then only asks *)
(* for questions and submits audio while the clock runs.                    *)

IssuedIds == {Some(i) : i \in SessionIds}

InterviewNext ==
    \/ Tick
    \/ \E c \in Connections : Connect(c)
    \/ \E c \in Connections,
          m \in {sm \in StartMessages : sm.topics # None /\ sm.interview_duration = MaxDuration} :
           start_session(c, m, MaxSessions)
    \/ \E c \in Connections,
          m \in {sm \in SessionMessages("get_question") : sm.session_id \in IssuedIds} :
           GetQuestionStep(c, m)
    \/ \E c \in Connections,
          m \in {am \in AudioMessages : /\ am.type = Some("submit_audio")
                                       /\ am.session_id \in IssuedIds
                                       /\ am.audio_data # None} :
           ProcessAudioStep(c, m, MaxInterviewExchanges)

SpecInterview == Init /\ [][InterviewNext]_vars

---------------------------------------------------------------------------
(* Several sessions on one server: clients start sessions and ask for questions. *)

SharingNext ==
    \/ \E c \in Connections : Connect(c)
    \/ \E c \in Connections, m \in {sm \in StartMessages : sm.topics # None} :
           start_session(c, m, MaxSharedSessions)
    \/ \E c \in Connections, sid \in 1..MaxSharedSessions :
           GetQuestionStep(c, Message(Some("get_question"), [session_id |-> Some(sid)]))

SpecSharing == Init /\ [][SharingNext]_vars

---------------------------------------------------------------------------
(* QuestionManager: loading the bank.  A bank file is missing, is not JSON, or *)
(* holds a list of questions.                                                  *)

MIN_DIFFICULTY == 1     \* Question.difficulty, ge
MAX_DIFFICULTY == 5     \* Question.difficulty, le

BankQuestion(id, text, difficulty, expected_answer) ==
    [id |-> id, text |-> text, topic |-> "programming", difficulty |-> difficulty,
     expected_answer |-> expected_answer]

BankQuestions ==
    { BankQuestion(id, text, difficulty, expected_answer) :
        id \in {"q001", "q002"},
        text \in {<<"What is a closure?">>, <<" ">>},
        difficulty \in {MIN_DIFFICULTY - 1, MIN_DIFFICULTY, MAX_DIFFICULTY, MAX_DIFFICULTY + 1},
        expected_answer \in {<<"A function with its environment">>, <<>>} }

BankFiles ==
    { [kind |-> "missing", questions |-> <<>>], [kind |-> "invalid_json", questions |-> <<>>] }
        \cup { [kind |-> "object", questions |-> qs] :
                 qs \in UNION { [1..n -> BankQuestions] : n \in 0..MaxBankSize } }

\* Question's field constraints.
Question_validates(q) == q.difficulty >= MIN_DIFFICULTY /\ q.difficulty <= MAX_DIFFICULTY

\* [ok, questions]: self.questions is assigned only when the file is read, parsed and
\* every question validates.
load_questions(questions, file) ==
    IF file.kind # "object" THEN [ok |-> FALSE, questions |-> questions]
    ELSE IF \A i \in 1..Len(file.questions) : Question_validates(file.questions[i])
    THEN [ok |-> TRUE, questions |-> file.questions]
    ELSE [ok |-> FALSE, questions |-> questions]

validate_question_bank(questions) ==
    /\ questions # <<>>
    /\ \A i, j \in 1..Len(questions) : i # j => questions[i].id # questions[j].id
    /\ \A i \in 1..Len(questions) :
           /\ strip(questions[i].text) # <<>>
           /\ strip(questions[i].expected_answer) # <<>>
           /\ questions[i].difficulty >= MIN_DIFFICULTY
           /\ questions[i].difficulty <= MAX_DIFFICULTY

\* QuestionManager(question_bank_path): the list starts empty and the file is loaded;
\* valid is what validate_question_bank would return for the manager.
QuestionManager_init(file) ==
    LET loaded == load_questions(<<>>, file)
    IN  /\ qm_call = None
        /\ qm_call' = Some([op |-> "__init__", file |-> file, ok |-> loaded.ok,
                            questions |-> loaded.questions,
                            valid |-> validate_question_bank(loaded.questions)])
        /\ UNCHANGED <<conversation_state, action, last_call, fu_since_question,
                       fu_on_current, llm_reply, analyzed, eval_answer, eval_response,
                       eval_result, session_logger, inbox, tasks, now, server_vars,
                       audio_vars>>

BankNext == \E file \in BankFiles : QuestionManager_init(file)

SpecBank == Init /\ [][BankNext]_vars

---------------------------------------------------------------------------
(* The server's event loop.  Every connection has a handle_client coroutine on   *)
(* the one loop thread.  inbox holds the frames clients have sent, in arrival    *)
(* order; tasks holds the handlers that have taken a frame and not yet sent its  *)
(* response, each with the call it is inside.  The transcription, reasoning and  *)
(* synthesis calls are plain calls made from the coroutine, so the coroutine     *)
(* keeps the loop thread until the handler returns.                              *)

LoopConnections == 1..MaxLoopConnections
LoopSessions == 1..MaxLoopSessions

LoopStartMessage ==
    Message(Some("start_session"),
            [topics |-> Some(<<"programming">>), difficulty |-> 1,
             interview_duration |-> MaxDuration])

SubmitAudio(sid) ==
    Message(Some("submit_audio"), [session_id |-> Some(sid), audio_data |-> Some("UklGRg==")])

\* Replies to the intent prompt under SpecLoop: the call fails, or names an intent.
LoopIntentReplies == { LLMRaise, LLMText(<<"stuck">>) }

\* The loop thread runs every handler at once.
LoopFreeAlways == TRUE

\* The loop thread is free: no coroutine is inside a handler.
LoopFree == tasks = <<>>

RemoveAt(seq, i) == SubSeq(seq, 1, i - 1) \o SubSeq(seq, i + 1, Len(seq))

\* The oldest frame of connection c that handle_client has not taken (0: none).
FirstOf(c) ==
    IF \E i \in 1..Len(inbox) : inbox[i].conn = c
    THEN CHOOSE i \in 1..Len(inbox) :
            /\ inbox[i].conn = c
            /\ \A j \in 1..(i - 1) : inbox[j].conn # c
    ELSE 0

\* The exchanges in the histories of the sessions sids.
RECURSIVE HistoryLen(_)
HistoryLen(sids) ==
    IF sids = {} THEN 0
    ELSE LET sid == CHOOSE sid \in sids : TRUE
         IN  Len(active_sessions[sid].ai_manager.conversation_history)
                 + HistoryLen(sids \ {sid})

Handler(c, m, pc, transcript, ai_response) ==
    [conn |-> c, message |-> m, pc |-> pc, transcript |-> transcript,
     ai_response |-> ai_response]

LoopUnchanged ==
    UNCHANGED <<conversation_state, action, last_call, fu_since_question, fu_on_current,
                llm_reply, analyzed, eval_answer, eval_response, eval_result, qm_call,
                session_logger, now, used_questions, sessions_created, connections,
                audio_vars>>

\* A client writes a submit_audio frame to its connection.
ClientSends(c, sid) ==
    /\ c \in connections
    /\ Len(inbox) + Len(tasks) + HistoryLen(DOMAIN active_sessions) < MaxLoopExchanges
    /\ inbox' = Append(inbox, [conn |-> c, message |-> SubmitAudio(sid)])
    /\ UNCHANGED <<tasks, active_sessions, request, response, calls>>
    /\ LoopUnchanged

\* handle_client's loop takes the connection's next frame and process_audio runs up
\* to the transcription call.
Receive(c) ==
    LET i == FirstOf(c)
        m == inbox[i].message
    IN  /\ LoopFree
        /\ c \in connections
        /\ i # 0
        /\ inbox' = RemoveAt(inbox, i)
        /\ IF Lookup(m.session_id) = None
           THEN /\ Sent(c, m, SessionNotFound, {})
                /\ UNCHANGED tasks
           ELSE /\ tasks' = Append(tasks, Handler(c, m, "transcribe", <<>>, None))
                /\ UNCHANGED <<request, response, calls>>
        /\ UNCHANGED active_sessions
        /\ LoopUnchanged

\* The transcription call returns to the handler, which goes on to
\* process_user_speech unless there is no transcript or the time is up.
TranscribeReturns(i, transcript) ==
    LET task == tasks[i]
        session == Val(Lookup(task.message.session_id))
    IN  /\ i \in 1..Len(tasks)
        /\ task.pc = "transcribe"
        /\ IF transcript = <<>>
           THEN /\ Sent(task.conn, task.message,
                        ErrorResponse("Failed to transcribe audio"), {"transcribe"})
                /\ tasks' = RemoveAt(tasks, i)
           ELSE IF should_end_interview(session.ai_manager, now)
           THEN /\ Sent(task.conn, task.message,
                        [type |-> "interview_complete",
                         message |-> "Interview time completed"], {"transcribe"})
                /\ tasks' = RemoveAt(tasks, i)
           ELSE /\ tasks' = [tasks EXCEPT ![i].pc = "reason", ![i].transcript = transcript]
                /\ UNCHANGED <<request, response, calls>>
        /\ UNCHANGED <<inbox, active_sessions>>
        /\ LoopUnchanged

\* process_user_speech returns: the utterance is classified, acted upon and appended
\* to the session's history, and the exchange is logged; the handler goes on to the
\* synthesis call.
ReasonReturns(i, ir, ev, dec, gen) ==
    LET task == tasks[i]
        sid == Val(task.message.session_id)
        session == active_sessions[sid]
        r == process_user_speech(session.ai_manager, task.transcript,
                                 SessionContext(session), ir, ev, dec, gen)
    IN  /\ i \in 1..Len(tasks)
        /\ task.pc = "reason"
        /\ active_sessions' =
               [active_sessions EXCEPT
                   ![sid].ai_manager = r.cs,
                   ![sid].logger = log_user_response(@, "conversation", task.transcript,
                                                     None, None)]
        /\ tasks' = [tasks EXCEPT ![i].pc = "synthesis", ![i].ai_response = Some(r.response)]
        /\ UNCHANGED <<inbox, request, response, calls>>
        /\ LoopUnchanged

ReasonStep(i) ==
    /\ i \in 1..Len(tasks)
    /\ tasks[i].pc = "reason"
    /\ LET session == active_sessions[Val(tasks[i].message.session_id)]
       IN  \E ir \in LoopIntentReplies :
               LET asked == Evaluates(session.ai_manager, SessionContext(session), ir)
               IN  \E ev \in (IF asked THEN EvalOutcomes ELSE {NotCalled}),
                      dec \in (IF asked THEN {LLMRaise} ELSE {NotCalled}),
                      gen \in {LLMText(<<"Q1">>)} :
                       ReasonReturns(i, ir, ev, dec, gen)

\* The synthesis call returns and handle_client sends the handler's response.
SynthesisReturns(i, audio) ==
    LET task == tasks[i]
    IN  /\ i \in 1..Len(tasks)
        /\ task.pc = "synthesis"
        /\ Sent(task.conn, task.message,
                [ type |-> "ai_conversation",
                  transcript |-> task.transcript,
                  response_text |-> Val(task.ai_response).text,
                  response_audio |-> audio,
                  response_type |-> Val(task.ai_response).type,
                  auto_play |-> TRUE ],
                {"transcribe", "reasoning", "synthesis"})
        /\ tasks' = RemoveAt(tasks, i)
        /\ UNCHANGED <<inbox, active_sessions>>
        /\ LoopUnchanged

\* A start_session frame is taken and handled; the handler makes no external call.
\* The k-th session is started on connection k.
StartOnLoop(c) ==
    /\ LoopFree
    /\ c = sessions_created + 1
    /\ start_session(c, LoopStartMessage, MaxLoopSessions)

LoopNext ==
    \/ \E c \in LoopConnections : Connect(c)
    \/ \E c \in LoopConnections : StartOnLoop(c)
    \/ \E c \in LoopConnections, sid \in LoopSessions : ClientSends(c, sid)
    \/ \E c \in LoopConnections : Receive(c)
    \/ \E i \in 1..Len(tasks), transcript \in TranscribeOutcomes : TranscribeReturns(i, transcript)
    \/ \E i \in 1..Len(tasks) : ReasonStep(i)
    \/ \E i \in 1..Len(tasks), audio \in SpeechOutcomes : SynthesisReturns(i, audio)

SpecLoop == Init /\ [][LoopNext]_vars

---------------------------------------------------------------------------
(* AudioManager: recording.  A frame is modelled by its peak amplitude and  *)
(* a duration in whole seconds.  One caller thread uses the AudioManager;   *)
(* the capture thread runs beside it.                                       *)

AudioConfigs ==
    [ sample_rate : 1..MaxSampleRate,
      chunk_size : 1..MaxChunkSize,
      silence_threshold : 1..MaxSilenceSeconds,
      max_duration : 1..MaxRecordingSeconds ]

\* Peak amplitudes just below and at the silence amplitude.
Amplitudes == {AMPLITUDE_THRESHOLD - 1, AMPLITUDE_THRESHOLD}

\* int(silence_threshold * sample_rate / chunk_size)
silence_threshold_frames(cfg) == (cfg.silence_threshold * cfg.sample_rate) \div cfg.chunk_size

\* int(max_duration * sample_rate / chunk_size)
max_frames(cfg) == (cfg.max_duration * cfg.sample_rate) \div cfg.chunk_size

\* The silence test with the threshold included.
IsSilentInclusive(amplitude) == amplitude <= AMPLITUDE_THRESHOLD

IsSilent(amplitude) == amplitude < AMPLITUDE_THRESHOLD

SilenceDetectedAtThreshold(counter, threshold_frames) == counter >= threshold_frames

SilenceDetected(counter, threshold_frames) == counter > threshold_frames

\* b''.join(frames): the frames' bytes one after the other.
RECURSIVE join(_)
join(frames) == IF frames = <<>> THEN <<>> ELSE <<Head(frames)>> \o join(Tail(frames))

\* What a call returned.
Returned(op, value) == Some([op |-> op, value |-> value])

\* Transcripts speech_to_text returns: None on failure, or a text.
SpeechToTextOutcomes == { None, Some(<<"hello">>) }

outside_audio == <<now, server_vars, dialogue_vars>>

\* AudioManager.__init__
AudioManager_init(cfg) ==
    /\ audio_config = None
    /\ audio_config' = Some(cfg)
    /\ is_recording' = FALSE
    /\ recording_thread' = None
    /\ recorded_audio' = None
    /\ audio_step' = Some("init")
    /\ UNCHANGED <<frame_count, silence_counter, stop_reason, caller, returned,
                   recording_complete, transcribed, interrupted>>
    /\ UNCHANGED outside_audio

AlreadyRecordingIgnored == FALSE

\* start_recording's test of the flag.
AlreadyRecording == is_recording

\* The body of start_recording once the flag is found clear: a new capture thread,
\* whose counters start at 0; `callback` is the event to set when the thread ends.
StartThread(callback) ==
    /\ is_recording' = TRUE
    /\ recorded_audio' = Some(<<>>)
    /\ recording_thread' = Some("running")
    /\ frame_count' = 0
    /\ silence_counter' = 0
    /\ stop_reason' = None
    /\ recording_complete' = callback

\* Thread.start() raises: the handler of start_recording clears the flag again; the
\* buffer is already emptied and recording_thread holds the thread that never ran, so
\* no frame is read and no callback is registered.
StartFailed ==
    /\ is_recording' = FALSE
    /\ recorded_audio' = Some(<<>>)
    /\ recording_thread' = Some("unstarted")
    /\ frame_count' = 0
    /\ silence_counter' = 0
    /\ stop_reason' = None
    /\ recording_complete' = None

\* Whether Thread.start() starts the thread.
ThreadStarts == BOOLEAN

\* start_recording(): False when a recording is in progress or the thread cannot be
\* started.
start_recording(started) ==
    /\ audio_config # None
    /\ caller = "idle"
    /\ audio_step' = Some("start_recording")
    /\ IF AlreadyRecording
       THEN /\ returned' = Returned("start_recording", FALSE)
            /\ UNCHANGED <<is_recording, recorded_audio, recording_thread, frame_count,
                           silence_counter, stop_reason, recording_complete>>
       ELSE IF started
       THEN /\ StartThread(None)
            /\ returned' = Returned("start_recording", TRUE)
       ELSE /\ StartFailed
            /\ returned' = Returned("start_recording", FALSE)
    /\ UNCHANGED <<audio_config, caller, transcribed, interrupted>>
    /\ UNCHANGED outside_audio

NoRecordingInProgressByThread == recording_thread = None

\* stop_recording's test of the flag.
NoRecordingInProgress == ~is_recording

\* What stop_recording returns once the thread is joined.
StopResult ==
    IF Val(recorded_audio) # <<>> THEN Some(join(Val(recorded_audio))) ELSE None

\* stop_recording(), up to the join: None when no recording is in progress, else
\* the flag is cleared and the caller waits for the thread.
stop_recording ==
    /\ audio_config # None
    /\ caller = "idle"
    /\ audio_step' = Some("stop_recording")
    /\ IF NoRecordingInProgress
       THEN /\ returned' = Returned("stop_recording", None)
            /\ UNCHANGED <<is_recording, caller>>
       ELSE /\ is_recording' = FALSE
            /\ caller' = "join"
            /\ UNCHANGED returned
    /\ UNCHANGED <<audio_config, recorded_audio, recording_thread, frame_count,
                   silence_counter, stop_reason, recording_complete, transcribed,
                   interrupted>>
    /\ UNCHANGED outside_audio

JoinedWithoutWaiting == TRUE

\* recording_thread.join() returns.
Joined == recording_thread \notin {Some("running"), Some("reading"), Some("closing")}

\* stop_recording() returns after the join.
stop_recording_return ==
    /\ caller = "join"
    /\ Joined
    /\ caller' = "idle"
    /\ returned' = Returned("stop_recording", StopResult)
    /\ audio_step' = Some("stop_recording_return")
    /\ UNCHANGED <<audio_config, is_recording, recorded_audio, recording_thread, frame_count,
                   silence_counter, stop_reason, recording_complete, transcribed,
                   interrupted>>
    /\ UNCHANGED outside_audio

\* The thread leaves its loop and goes on to stream.stop_stream(); the flag is still
\* set while it is there.
LeaveLoop(reason) ==
    /\ recording_thread' = Some("closing")
    /\ stop_reason' = Some(reason)
    /\ audio_step' = Some("thread")

\* stop_stream() and close() return: the flag is cleared and the callback, when there
\* is one, called.
ThreadExit ==
    /\ recording_thread = Some("closing")
    /\ is_recording' = FALSE
    /\ recording_thread' = Some("finished")
    /\ recording_complete' = IF recording_complete = None THEN None ELSE Some(TRUE)
    /\ audio_step' = Some("thread_exit")
    /\ UNCHANGED <<audio_config, recorded_audio, frame_count, silence_counter, stop_reason,
                   caller, returned, transcribed, interrupted>>
    /\ UNCHANGED outside_audio

\* stop_stream() or close() raises: the outer handler clears the flag, no callback is
\* called.
CloseError ==
    /\ recording_thread = Some("closing")
    /\ is_recording' = FALSE
    /\ recording_thread' = Some("finished")
    /\ audio_step' = Some("close_error")
    /\ UNCHANGED <<audio_config, recorded_audio, frame_count, silence_counter, stop_reason,
                   caller, returned, recording_complete, transcribed, interrupted>>
    /\ UNCHANGED outside_audio

InLoopInclusive ==
    /\ recording_thread = Some("running")
    /\ is_recording
    /\ frame_count <= max_frames(Val(audio_config))

\* The loop condition of _record_audio_thread holds.
InLoop ==
    /\ recording_thread = Some("running")
    /\ is_recording
    /\ frame_count < max_frames(Val(audio_config))

\* The loop condition holds and the thread waits in stream.read.
EnterIteration ==
    /\ InLoop
    /\ recording_thread' = Some("reading")
    /\ audio_step' = Some("thread")
    /\ UNCHANGED <<audio_config, is_recording, recorded_audio, frame_count, silence_counter,
                   stop_reason, caller, returned, recording_complete, transcribed,
                   interrupted>>
    /\ UNCHANGED outside_audio

\* stream.read returns a frame: the rest of the iteration, which ends at the loop test or,
\* by the break, behind the loop.
ReadFrame(amplitude) ==
    LET counter == IF IsSilent(amplitude) THEN silence_counter + 1 ELSE 0
    IN  /\ recording_thread = Some("reading")
        /\ recorded_audio' = Some(Append(Val(recorded_audio), amplitude))
        /\ frame_count' = frame_count + 1
        /\ silence_counter' = counter
        /\ IF SilenceDetected(counter, silence_threshold_frames(Val(audio_config)))
           THEN LeaveLoop("silence")
           ELSE /\ recording_thread' = Some("running")
                /\ audio_step' = Some("thread")
                /\ UNCHANGED stop_reason
        /\ UNCHANGED <<audio_config, is_recording, caller, returned, recording_complete,
                       transcribed, interrupted>>
        /\ UNCHANGED outside_audio

\* stream.read raises: the loop is left.
ReadError ==
    /\ recording_thread = Some("reading")
    /\ LeaveLoop("error")
    /\ UNCHANGED <<audio_config, is_recording, recorded_audio, frame_count, silence_counter,
                   caller, returned, recording_complete, transcribed, interrupted>>
    /\ UNCHANGED outside_audio

\* The loop condition fails: the recording was stopped, or max_frames are read.
LoopEnd ==
    /\ recording_thread = Some("running")
    /\ ~InLoop
    /\ LeaveLoop(IF is_recording THEN "max_duration" ELSE "stopped")
    /\ UNCHANGED <<audio_config, is_recording, recorded_audio, frame_count, silence_counter,
                   caller, returned, recording_complete, transcribed, interrupted>>
    /\ UNCHANGED outside_audio

\* Opening the stream raises: the outer handler clears the flag, no callback is called.
OpenError ==
    /\ recording_thread = Some("running")
    /\ frame_count = 0
    /\ is_recording' = FALSE
    /\ recording_thread' = Some("finished")
    /\ stop_reason' = Some("open_error")
    /\ audio_step' = Some("thread")
    /\ UNCHANGED <<audio_config, recorded_audio, frame_count, silence_counter, caller,
                   returned, recording_complete, transcribed, interrupted>>
    /\ UNCHANGED outside_audio

\* record_and_transcribe, up to the wait: None when the recording cannot start.
record_and_transcribe(started) ==
    /\ audio_config # None
    /\ caller = "idle"
    /\ transcribed' = None
    /\ interrupted' = FALSE
    /\ IF AlreadyRecording
       THEN /\ returned' = Returned("record_and_transcribe", None)
            /\ audio_step' = Some("record_and_transcribe_return")
            /\ UNCHANGED <<is_recording, recorded_audio, recording_thread, frame_count,
                           silence_counter, stop_reason, recording_complete, caller>>
       ELSE IF ~started
       THEN /\ StartFailed
            /\ returned' = Returned("record_and_transcribe", None)
            /\ audio_step' = Some("record_and_transcribe_return")
            /\ UNCHANGED caller
       ELSE /\ StartThread(Some(FALSE))
            /\ caller' = "wait"
            /\ audio_step' = Some("record_and_transcribe")
            /\ returned' = None       \* the call is in progress
    /\ UNCHANGED audio_config
    /\ UNCHANGED outside_audio

\* recording_complete.wait() returns: the callback has set the event.
WaitReturns ==
    /\ caller = "wait"
    /\ recording_complete = Some(TRUE)
    /\ caller' = "stop"
    /\ audio_step' = Some("wait")
    /\ UNCHANGED <<audio_config, is_recording, recorded_audio, recording_thread, frame_count,
                   silence_counter, stop_reason, returned, recording_complete, transcribed,
                   interrupted>>
    /\ UNCHANGED outside_audio

\* KeyboardInterrupt during the wait: stop_recording() is called and its result dropped.
KeyboardInterrupt ==
    /\ caller = "wait"
    /\ interrupted' = TRUE
    /\ audio_step' = Some("interrupt")
    /\ IF NoRecordingInProgress
       THEN /\ caller' = "stop"
            /\ UNCHANGED is_recording
       ELSE /\ is_recording' = FALSE
            /\ caller' = "interrupt_join"
    /\ UNCHANGED <<audio_config, recorded_audio, recording_thread, frame_count,
                   silence_counter, stop_reason, returned, recording_complete, transcribed>>
    /\ UNCHANGED outside_audio

\* audio_data = self.stop_recording(), up to the join; "No audio recorded" when it
\* returns None.
GetRecordedAudio ==
    /\ caller = "stop"
    /\ IF NoRecordingInProgress
       THEN /\ returned' = Returned("record_and_transcribe", None)
            /\ caller' = "idle"
            /\ audio_step' = Some("record_and_transcribe_return")
            /\ UNCHANGED is_recording
       ELSE /\ is_recording' = FALSE
            /\ caller' = "stop_join"
            /\ audio_step' = Some("stop")
            /\ UNCHANGED returned
    /\ UNCHANGED <<audio_config, recorded_audio, recording_thread, frame_count,
                   silence_counter, stop_reason, recording_complete, transcribed,
                   interrupted>>
    /\ UNCHANGED outside_audio

\* A stop_recording() of record_and_transcribe returns after its join: the one of the
\* interrupt handler has its result dropped, the other one's audio goes to
\* speech_to_text, whose result `transcript` is returned.
AudioJoined(transcript) ==
    /\ caller \in {"interrupt_join", "stop_join"}
    /\ Joined
    /\ IF caller = "interrupt_join"
       THEN /\ caller' = "stop"
            /\ audio_step' = Some("interrupt_return")
            /\ UNCHANGED <<returned, transcribed>>
       ELSE /\ caller' = "idle"
            /\ audio_step' = Some("record_and_transcribe_return")
            /\ IF StopResult = None
               THEN /\ returned' = Returned("record_and_transcribe", None)
                    /\ UNCHANGED transcribed
               ELSE /\ transcribed' = StopResult
                    /\ returned' = Returned("record_and_transcribe", transcript)
    /\ UNCHANGED <<audio_config, is_recording, recorded_audio, recording_thread, frame_count,
                   silence_counter, stop_reason, recording_complete, interrupted>>
    /\ UNCHANGED outside_audio

AudioNext ==
    \/ \E cfg \in AudioConfigs : AudioManager_init(cfg)
    \/ \E started \in ThreadStarts : start_recording(started)
    \/ stop_recording
    \/ stop_recording_return
    \/ \E started \in ThreadStarts : record_and_transcribe(started)
    \/ WaitReturns
    \/ KeyboardInterrupt
    \/ GetRecordedAudio
    \/ \E transcript \in SpeechToTextOutcomes : AudioJoined(transcript)
    \/ OpenError
    \/ EnterIteration
    \/ \E amplitude \in Amplitudes : ReadFrame(amplitude)
    \/ ReadError
    \/ LoopEnd
    \/ ThreadExit
    \/ CloseError

SpecAudio == Init /\ [][AudioNext]_vars

---------------------------------------------------------------------------
(* Claims about the follow-up budget *)

AnsweredCurrent(c) ==
    /\ c.intent = Some("answering_question")
    /\ Truthy(c.before.current_question)

\* C1: at most max_follow_ups 'follow_up' actions are returned without a 'question'
\* action in between; an answer handled with follow_up_count = max_follow_ups gets a
\* 'question' action even when the decision is 'follow_up'; and follow_up_count
\* falls back to 0 only in a call that returns a 'question' action.
ThmC1_FollowUpsBounded ==
    /\ fu_since_question <= conversation_state.max_follow_ups
    /\ last_call # None =>
        LET c == Val(last_call)
        IN  /\ (AnsweredCurrent(c) /\ c.before.follow_up_count = c.before.max_follow_ups)
                => /\ Val(action).type = "question"
                   /\ conversation_state.follow_up_count = 0
            /\ (c.before.follow_up_count > 0 /\ conversation_state.follow_up_count = 0)
                => Val(action).type = "question"

\* An answer arrived with the budget used up, the decision said 'follow_up', and a
\* question was returned with the counter back at 0.
WitC1_ForcedQuestion ==
    /\ last_call # None
    /\ AnsweredCurrent(Val(last_call))
    /\ Val(last_call).before.follow_up_count = MAX_FOLLOW_UPS
    /\ Val(last_call).decision = "follow_up"
    /\ Val(action).type = "question"
    /\ conversation_state.follow_up_count = 0

\* C2: while one value is the current question, at most max_follow_ups 'follow_up'
\* actions are issued, whatever the external calls do.
CexC2_BudgetPerQuestion ==
    fu_on_current <= conversation_state.max_follow_ups

---------------------------------------------------------------------------
(* Claims about the interview clock and the server's handlers *)

\* A step in which handle_client took a message and answered it.
Handled ==
    /\ now' = now
    /\ request' # None
    /\ ~(request' = request /\ connections' # connections)

\* The session id the message handled in this step names, None when it names none.
Addressed ==
    IF request' = None THEN None
    ELSE IF "session_id" \in DOMAIN Val(request').message
    THEN Val(request').message.session_id
    ELSE None

HandledType == IF request' = None THEN None ELSE Val(request').message.type

\* max(0, duration - elapsed) of a registered session, in ticks.
RemainingTicks(sid) ==
    LET cs == active_sessions[sid].ai_manager
        raw == cs.duration_minutes * TicksPerMinute - (now - cs.start_time)
    IN  IF raw > 0 THEN raw ELSE 0

\* C3: should_end_interview is true exactly when the remaining time, max(0, duration -
\* elapsed), is at most one minute, and the remaining time is never negative.
ThmC3_EndIffLastMinute ==
    \A sid \in DOMAIN active_sessions :
        LET cs == active_sessions[sid].ai_manager
        IN  /\ get_remaining_time(cs, now) = RemainingTicks(sid)
            /\ get_remaining_time(cs, now) >= 0
            /\ should_end_interview(cs, now) <=> (RemainingTicks(sid) <= TicksPerMinute)
            /\ (RemainingTicks(sid) > TicksPerMinute) => ~should_end_interview(cs, now)

\* A session exactly one minute before its end, where the interview is over.
WitC3_LastMinute ==
    \E sid \in DOMAIN active_sessions :
        /\ RemainingTicks(sid) = TicksPerMinute
        /\ should_end_interview(active_sessions[sid].ai_manager, now)
        /\ active_sessions[sid].ai_manager.conversation_history # <<>>

\* A submit-audio message for session sid is handled in this step, and its audio is
\* transcribed to a non-empty text.
UtteranceSubmitted(sid) ==
    /\ Handled
    /\ HandledType \in {Some("submit_audio"), Some("process_audio")}
    /\ Addressed = Some(sid)
    /\ "transcribe" \in calls'
    /\ response' # <<ErrorResponse("Failed to transcribe audio")>>

\* C4: for a known session with at most one minute remaining, a submitted utterance is
\* answered 'interview_complete', the dialogue policy is not called, and the session's
\* conversation state is left as it was.
ThmC4_EndCheckedBeforeUtterance ==
    [][ \A sid \in DOMAIN active_sessions :
            (UtteranceSubmitted(sid) /\ RemainingTicks(sid) <= TicksPerMinute)
                => /\ Len(response') = 1
                   /\ response'[1].type = "interview_complete"
                   /\ "reasoning" \notin calls'
                   /\ sid \in DOMAIN active_sessions'
                   /\ active_sessions'[sid].ai_manager = active_sessions[sid].ai_manager
      ]_vars

\* An utterance turned away in the last minute while a follow-up was pending.
WitC4_CompleteDuringFollowUps ==
    /\ request # None
    /\ Val(request).message.type = Some("submit_audio")
    /\ response = <<[type |-> "interview_complete", message |-> "Interview time completed"]>>
    /\ \E sid \in DOMAIN active_sessions :
           /\ Val(request).message.session_id = Some(sid)
           /\ active_sessions[sid].ai_manager.follow_up_count > 0
           /\ Truthy(active_sessions[sid].ai_manager.current_question)

\* C5: once a session has at most one minute remaining, neither get-question nor
\* submit-audio hands out a further question for it or appends to its record.
CexC5_TerminalOnEveryPath ==
    [][ \A sid \in DOMAIN active_sessions :
            ( /\ Handled
              /\ HandledType \in {Some("get_question"), Some("submit_audio"),
                                   Some("process_audio")}
              /\ Addressed = Some(sid)
              /\ RemainingTicks(sid) <= TicksPerMinute )
                => /\ response'[1].type \notin {"question", "ai_conversation"}
                   /\ sid \in DOMAIN active_sessions'
                   /\ active_sessions'[sid].logger = active_sessions[sid].logger
      ]_vars

\* C6: an end-session request that follows a successful end-session request for the
\* same session, with no message in between, returns the same 'session_ended' response.
CexC6_EndSessionIdempotent ==
    [][ ( /\ Handled
          /\ request' = request
          /\ HandledType = Some("end_session")
          /\ response # <<>>
          /\ response[1].type = "session_ended" )
            => response' = response
      ]_vars

\* C7: once end_session has set a record's end time and summary, no later operation
\* changes the record's entries, end time, duration or summary.
CexC7_SealedRecordImmutable ==
    [][ \A sid \in DOMAIN active_sessions \cap DOMAIN active_sessions' :
            active_sessions[sid].logger.end_time # None
                => LET before == active_sessions[sid].logger
                       after == active_sessions'[sid].logger
                   IN  /\ after.questions_asked = before.questions_asked
                       /\ after.end_time = before.end_time
                       /\ after.total_duration = before.total_duration
                       /\ after.session_summary = before.session_summary
      ]_vars

\* The message handled in this step names no registered session.
UnknownSessionAddressed ==
    /\ Handled
    /\ HandledType \in {Some("get_question"), Some("submit_audio"), Some("process_audio"),
                         Some("end_session")}
    /\ IF Addressed = None THEN TRUE ELSE Val(Addressed) \notin DOMAIN active_sessions

\* C8: submit-audio, get-question and end-session for a session id that is not in the
\* registry answer with one 'error', change no session and call no external service.
ThmC8_UnknownSessionRejected ==
    [][ UnknownSessionAddressed
            => /\ Len(response') = 1
               /\ response'[1].type = "error"
               /\ active_sessions' = active_sessions
               /\ used_questions' = used_questions
               /\ sessions_created' = sessions_created
               /\ calls' = {}
      ]_vars

\* Audio submitted under an id that was never issued, while another session is running.
WitC8_UnknownIdWhileSessionRuns ==
    /\ request # None
    /\ Val(request).message.type = Some("submit_audio")
    /\ Val(request).message.session_id = Some(0)
    /\ response = <<ErrorResponse("Session not found")>>
    /\ calls = {}
    /\ \E sid \in DOMAIN active_sessions :
           active_sessions[sid].logger.questions_asked # <<>>

\* The frame handled in this step is not JSON, or carries no recognized type.
MalformedReceived ==
    /\ Handled
    /\ IF HandledType = None THEN TRUE ELSE Val(HandledType) \notin RecognizedTypes

\* C9: a frame that is not valid JSON, or whose type is missing or not recognized, is
\* answered with exactly one 'error', changes no session state, and its connection
\* goes on taking messages.
ThmC9_MalformedMessageRejected ==
    [][ MalformedReceived
            => /\ Len(response') = 1
               /\ response'[1].type = "error"
               /\ active_sessions' = active_sessions
               /\ used_questions' = used_questions
               /\ sessions_created' = sessions_created
               /\ calls' = {}
               /\ Val(request').conn \in connections'
      ]_vars

\* A frame that is not JSON was answered while a session was running.
WitC9_InvalidJsonAnswered ==
    /\ request # None
    /\ Val(request).message = InvalidJsonFrame
    /\ response = <<ErrorResponse("Invalid JSON format")>>
    /\ Val(request).conn \in connections
    /\ active_sessions # <<>>

---------------------------------------------------------------------------
(* Claims about the capture loop *)

AllSilent(frames) == \A i \in 1..Len(frames) : frames[i] < AMPLITUDE_THRESHOLD

\* T = floor(silence seconds * sample rate / frame size)
SilenceFrames ==
    (Val(audio_config).silence_threshold * Val(audio_config).sample_rate)
        \div Val(audio_config).chunk_size

MaxFrames ==
    (Val(audio_config).max_duration * Val(audio_config).sample_rate)
        \div Val(audio_config).chunk_size

SilenceStopped ==
    /\ audio_config # None
    /\ stop_reason = Some("silence")
    /\ AllSilent(Val(recorded_audio))

\* C10 as stated: over frames that are all below the amplitude threshold the loop stops
\* for silence having read exactly T frames.
CexC10_StopsAtThresholdFrame ==
    SilenceStopped => frame_count = SilenceFrames

\* C10: over frames that are all below the amplitude threshold the loop stops for
\* silence having read exactly T + 1 frames, and when T is below the max-duration frame
\* count such a recording never runs to the maximum duration.
ThmC10_StopsAfterThresholdFrame ==
    /\ SilenceStopped
           => /\ frame_count = SilenceFrames + 1
              /\ Len(Val(recorded_audio)) = SilenceFrames + 1
              /\ SilenceFrames < MaxFrames
    /\ ( /\ audio_config # None
         /\ stop_reason = Some("max_duration")
         /\ AllSilent(Val(recorded_audio)) )
           => SilenceFrames >= MaxFrames

\* A silent recording stopped by the silence gate, with a floored threshold.
WitC10_SilentRecordingStopped ==
    /\ SilenceStopped
    /\ SilenceFrames >= 1
    /\ Val(audio_config).silence_threshold * Val(audio_config).sample_rate
           # SilenceFrames * Val(audio_config).chunk_size
    /\ frame_count = SilenceFrames + 1

AllLoud(frames) == \A i \in 1..Len(frames) : frames[i] >= AMPLITUDE_THRESHOLD

\* C11: one recording never reads more than M = floor(max seconds * sample rate / frame
\* size) frames, and a recording of loud frames that ends by itself ends at the cap,
\* after exactly M frames.
ThmC11_HardCap ==
    (audio_config # None /\ recorded_audio # None)
        => /\ frame_count <= MaxFrames
           /\ Len(Val(recorded_audio)) <= MaxFrames
           /\ (AllLoud(Val(recorded_audio))
                  /\ stop_reason \in {Some("silence"), Some("max_duration")})
                 => /\ stop_reason = Some("max_duration")
                    /\ frame_count = MaxFrames
                    /\ Len(Val(recorded_audio)) = MaxFrames

\* A loud recording cut at the cap, where the silence gate could have fired first.
WitC11_LoudRecordingCapped ==
    /\ audio_config # None
    /\ stop_reason = Some("max_duration")
    /\ AllLoud(Val(recorded_audio))
    /\ frame_count = MaxFrames
    /\ SilenceFrames + 1 < MaxFrames

\* The caller's last call was op and returned value.
HasReturned(op, value) ==
    /\ returned # None
    /\ Val(returned).op = op
    /\ Val(returned).value = value

\* The step returns value from op to the caller.
ReturnsNow(op, value) ==
    /\ returned' # None
    /\ Val(returned').op = op
    /\ Val(returned').value = value

\* C12: start_recording while a recording is in progress returns False and leaves the
\* flag, the frame buffer and the capture thread as they are.
ThmC12_StartWhileRecordingFails ==
    [][ (audio_step' = Some("start_recording") /\ is_recording)
            => /\ ReturnsNow("start_recording", FALSE)
               /\ is_recording'
               /\ recorded_audio' = recorded_audio
               /\ recording_thread' = recording_thread
               /\ frame_count' = frame_count
               /\ silence_counter' = silence_counter
               /\ recording_complete' = recording_complete
      ]_vars

\* A second start refused while frames were already captured.
WitC12_SecondStartRefused ==
    /\ audio_step = Some("start_recording")
    /\ HasReturned("start_recording", FALSE)
    /\ is_recording
    /\ recording_thread \in {Some("running"), Some("reading")}
    /\ Len(Val(recorded_audio)) >= 1

\* C13: stop_recording while no recording is in progress returns None and changes
\* nothing.
ThmC13_StopWhenIdleReturnsNone ==
    [][ (audio_step' = Some("stop_recording") /\ ~is_recording)
            => /\ ReturnsNow("stop_recording", None)
               /\ UNCHANGED <<audio_config, is_recording, recorded_audio, recording_thread,
                              frame_count, silence_counter, stop_reason, caller,
                              recording_complete, transcribed, interrupted>>
      ]_vars

\* A stop after the recording ended by itself: frames are buffered, None is returned.
WitC13_StopAfterOwnEnd ==
    /\ audio_step = Some("stop_recording")
    /\ HasReturned("stop_recording", None)
    /\ recording_thread = Some("finished")
    /\ stop_reason = Some("silence")
    /\ Len(Val(recorded_audio)) >= 1

\* The step is a call of start_recording or of record_and_transcribe by an idle caller;
\* record_and_transcribe returns at once when its recording cannot start.
StartCalled ==
    /\ caller = "idle"
    /\ audio_step' \in {Some("start_recording"), Some("record_and_transcribe"),
                        Some("record_and_transcribe_return")}

\* C14: stop_recording while recording clears the flag and waits; it returns only once
\* the capture thread has ended, with the frames appended, in order (None when there
\* are none); after it has returned no frame is appended: the buffer stays as it is
\* until start_recording or record_and_transcribe is called, which empties it.
ThmC14_StopReturnsAllFrames ==
    [][ /\ (audio_step' = Some("stop_recording") /\ is_recording)
            => /\ ~is_recording'
               /\ caller' = "join"
               /\ returned' = returned
        /\ (audio_step' = Some("stop_recording_return"))
            => /\ recording_thread = Some("finished")
               /\ ReturnsNow("stop_recording",
                                       IF Val(recorded_audio) = <<>> THEN None
                                       ELSE Some(Val(recorded_audio)))
        /\ ( /\ caller = "idle"
             /\ returned # None
             /\ Val(returned).op = "stop_recording"
             /\ recorded_audio' # recorded_audio )
            => /\ StartCalled
               /\ recorded_audio' = Some(<<>>)
      ]_vars

\* A recording stopped by the caller, its frames returned.
WitC14_StoppedRecordingReturned ==
    /\ audio_step = Some("stop_recording_return")
    /\ stop_reason = Some("stopped")
    /\ Len(Val(recorded_audio)) >= 2
    /\ HasReturned("stop_recording", Some(Val(recorded_audio)))

\* C15: when record_and_transcribe's recording ends by itself with frames captured,
\* those frames are handed to speech_to_text.
CexC15_FinishedAudioTranscribed ==
    ( /\ audio_step = Some("record_and_transcribe_return")
      /\ ~interrupted
      /\ stop_reason \in {Some("silence"), Some("max_duration")}
      /\ Val(recorded_audio) # <<>> )
        => transcribed = Some(Val(recorded_audio))

\* C16: when record_and_transcribe's wait is interrupted after frames were captured,
\* those frames are handed to speech_to_text.
CexC16_InterruptedAudioTranscribed ==
    ( /\ audio_step = Some("record_and_transcribe_return")
      /\ interrupted
      /\ Val(recorded_audio) # <<>> )
        => transcribed = Some(Val(recorded_audio))

AskingPieces == {"asking", "ASKING", "asking_question"}
ClarificationPieces == {"clarification", "Clarification", "seeking_clarification"}
ConfusedPieces == {"confused", "stuck", "STUCK", "confused_or_stuck"}
Mentions(text, pieces) == \E i \in 1..Len(text) : text[i] \in pieces

\* C17: a reply text mentioning 'asking' is classified asking_question whatever else it
\* holds; otherwise one mentioning 'clarification' seeking_clarification; otherwise one
\* mentioning 'confused' or 'stuck' confused_or_stuck; any other text
\* answering_question. The result is one of these four.
ThmC17_IntentPriority ==
    (analyzed # None /\ Val(llm_reply).kind = "text")
        => LET text == Val(llm_reply).text
           IN  /\ Val(analyzed) \in {"asking_question", "seeking_clarification",
                                     "confused_or_stuck", "answering_question"}
               /\ Mentions(text, AskingPieces) => Val(analyzed) = "asking_question"
               /\ (~Mentions(text, AskingPieces) /\ Mentions(text, ClarificationPieces))
                      => Val(analyzed) = "seeking_clarification"
               /\ ( /\ ~Mentions(text, AskingPieces)
                    /\ ~Mentions(text, ClarificationPieces)
                    /\ Mentions(text, ConfusedPieces) )
                      => Val(analyzed) = "confused_or_stuck"
               /\ ( /\ ~Mentions(text, AskingPieces)
                    /\ ~Mentions(text, ClarificationPieces)
                    /\ ~Mentions(text, ConfusedPieces) )
                      => Val(analyzed) = "answering_question"

\* A reply naming all three keywords, 'asking' last and in capitals.
WitC17_AskingWinsOverAll ==
    /\ llm_reply = Some(LLMText(<<"stuck", "seeking_clarification", "ASKING">>))
    /\ analyzed = Some("asking_question")

\* C18: a reasoning call that raises or returns something that is not text is
\* classified answering_question; _analyze_intent always returns an intent.
ThmC18_FailureIsAnswering ==
    (analyzed # None /\ Val(llm_reply).kind # "text")
        => analyzed = Some("answering_question")

\* Both failures classified.
WitC18_RaisedCallClassified ==
    /\ analyzed = Some("answering_question")
    /\ llm_reply = Some(LLMRaise)

\* The last process_user_speech call took the non-error path with this intent.
Classified(intent) == last_call # None /\ Val(last_call).intent = Some(intent)

HadCurrentQuestion == Truthy(Val(last_call).before.current_question)

\* C19: on the non-error path the action kind follows the intent: an answer with no
\* current question opens with a 'question' and the follow-up count stays 0; an answer
\* to a current question gives 'follow_up' or 'question'; a question of the candidate
\* 'guidance'; a clarification request 'clarification' with a current question and
\* 'question' without; confusion 'guidance'; no other kind occurs.
ThmC19_DispatchTable ==
    (last_call # None /\ Val(last_call).intent # None)
        => LET kind == Val(action).type
           IN  /\ kind \in {"question", "follow_up", "guidance", "clarification"}
               /\ (Classified("answering_question") /\ ~HadCurrentQuestion)
                      => /\ kind = "question"
                         /\ Val(last_call).before.follow_up_count = 0
                         /\ conversation_state.follow_up_count = 0
               /\ (Classified("answering_question") /\ HadCurrentQuestion)
                      => kind \in {"follow_up", "question"}
               /\ Classified("asking_question") => kind = "guidance"
               /\ (Classified("seeking_clarification") /\ HadCurrentQuestion)
                      => kind = "clarification"
               /\ (Classified("seeking_clarification") /\ ~HadCurrentQuestion)
                      => kind = "question"
               /\ Classified("confused_or_stuck") => kind = "guidance"

\* A clarification request before any question: the interview opens.
WitC19_ClarificationOpensInterview ==
    /\ Classified("seeking_clarification")
    /\ ~HadCurrentQuestion
    /\ action # None
    /\ Val(action).type = "question"
    /\ conversation_state.questions_asked = 1

\* The last utterance was a question of the candidate, confusion, or a clarification
\* request about a current question.
StaysOnQuestion ==
    \/ Classified("asking_question")
    \/ Classified("confused_or_stuck")
    \/ (Classified("seeking_clarification") /\ HadCurrentQuestion)

\* C20: such an utterance leaves the current question, the follow-up count, the
\* questions-asked counter and the awaiting-answer flag as they were, with the generated
\* reply and with the canned one; the history grows by that one exchange.
ThmC20_OffTopicKeepsQuestion ==
    StaysOnQuestion
        => LET before == Val(last_call).before
               cs == conversation_state
           IN  /\ cs.current_question = before.current_question
               /\ cs.follow_up_count = before.follow_up_count
               /\ cs.questions_asked = before.questions_asked
               /\ cs.awaiting_answer = before.awaiting_answer
               /\ cs.max_follow_ups = before.max_follow_ups
               /\ cs.start_time = before.start_time
               /\ Len(cs.conversation_history) = Len(before.conversation_history) + 1
               /\ SubSeq(cs.conversation_history, 1, Len(before.conversation_history))
                      = before.conversation_history
               /\ cs.conversation_history[Len(cs.conversation_history)].intent
                      = Val(Val(last_call).intent)

\* A question of the candidate during follow-ups, answered with the canned reply.
WitC20_QuestionDuringFollowUps ==
    /\ Classified("asking_question")
    /\ Val(last_call).before.follow_up_count >= 1
    /\ Val(action).text = USER_QUESTION_FALLBACK
    /\ conversation_state.follow_up_count >= 1

\* The last utterance was an answer to a current question whose follow-up budget was
\* not used up.
AnswerWithinBudget ==
    /\ Classified("answering_question")
    /\ HadCurrentQuestion
    /\ Val(last_call).before.follow_up_count < MAX_FOLLOW_UPS

\* The decision reply mentions 'follow'.
DecisionMentionsFollow ==
    /\ Val(last_call).dec.kind = "text"
    /\ \E i \in 1..Len(Val(last_call).dec.text) :
           Val(last_call).dec.text[i] \in {"follow", "Follow"}

\* C21: an answer within the follow-up budget whose decision reply mentions 'follow'
\* gives a 'follow_up' action, raises the follow-up count by exactly one and leaves the
\* current question and the questions-asked counter as they were.
ThmC21_FollowUpCountsOne ==
    (AnswerWithinBudget /\ DecisionMentionsFollow)
        => /\ Val(action).type = "follow_up"
           /\ conversation_state.follow_up_count = Val(last_call).before.follow_up_count + 1
           /\ conversation_state.current_question = Val(last_call).before.current_question
           /\ conversation_state.questions_asked = Val(last_call).before.questions_asked

\* The first follow-up on a question: the count goes from 0 to 1.
WitC21_FirstFollowUp ==
    /\ AnswerWithinBudget
    /\ DecisionMentionsFollow
    /\ Val(last_call).before.follow_up_count = 0
    /\ conversation_state.follow_up_count = 1
    /\ Val(action).type = "follow_up"

\* The canned text of the step that produced the last action.
CannedText ==
    LET kind == Val(action).type
        before == Val(last_call).before
    IN  CASE kind = "question" /\ ~HadCurrentQuestion -> FIRST_QUESTION_FALLBACK
          [] kind = "question" /\ HadCurrentQuestion -> NEXT_QUESTION_FALLBACK
          [] kind = "follow_up" -> FOLLOW_UP_FALLBACK
          [] kind = "clarification" -> CLARIFICATION_FALLBACK(Val(before.current_question))
          [] kind = "guidance" /\ Classified("asking_question") -> USER_QUESTION_FALLBACK
          [] kind = "guidance" /\ Classified("confused_or_stuck") -> CONFUSION_FALLBACK
          [] OTHER -> <<>>

\* C22: a failed decision call counts as 'new_question', so the action is a 'question';
\* a failed generation call gives the canned text of its step under the kind the step
\* has on success; neither failure ends in the error action.
ThmC22_ConservativeOnFailure ==
    (last_call # None /\ Val(last_call).intent # None)
        => /\ ( /\ Classified("answering_question")
                /\ HadCurrentQuestion
                /\ Val(last_call).dec.kind = "raise" )
                  => /\ Val(action).type = "question"
                     /\ conversation_state.follow_up_count = 0
           /\ Val(last_call).gen.kind = "raise"
                  => /\ Val(action).type \in {"question", "follow_up", "clarification",
                                               "guidance"}
                     /\ Val(action).text = CannedText
                     /\ (Classified("answering_question") /\ AnswerWithinBudget
                            /\ DecisionMentionsFollow) => Val(action).type = "follow_up"
                     /\ (Classified("seeking_clarification") /\ HadCurrentQuestion)
                            => Val(action).type = "clarification"

\* Both calls fail on an answer during follow-ups: the canned next question is spoken.
WitC22_BothCallsFail ==
    /\ Classified("answering_question")
    /\ HadCurrentQuestion
    /\ Val(last_call).before.follow_up_count >= 1
    /\ Val(last_call).dec.kind = "raise"
    /\ Val(last_call).gen.kind = "raise"
    /\ Val(action) = Reply("question", NEXT_QUESTION_FALLBACK)

\* C23: every process_user_speech call returns an action with a kind, a text that is
\* not empty and auto_play true.
CexC23_AlwaysAnUtterance ==
    action # None
        => /\ Val(action).type \in {"question", "follow_up", "clarification", "guidance",
                                     "error"}
           /\ Val(action).text # <<>>
           /\ Val(action).text # NoText
           /\ Val(action).auto_play = TRUE

\* The reply to the evaluation prompt is text that json.loads rejects.
MalformedReply ==
    /\ eval_result # None
    /\ Val(eval_response).kind = "text"
    /\ ~json_loads(strip(Val(eval_response).text)).ok

\* The text occurs in the feedback as a run of consecutive characters.
FeedbackHolds(feedback, text) ==
    \E k \in 0..(Len(feedback) - Len(text)) : SubSeq(feedback, k + 1, k + Len(text)) = text

\* C24: on a reply that is not well-formed JSON evaluate_answer returns an evaluation
\* whose score is the answer's word count div 5 brought into 1..10 and whose feedback
\* holds the first 200 characters of the reply.
ThmC24_FallbackEvaluation ==
    MalformedReply
        => /\ Val(eval_result).value # None
           /\ LET result == Val(Val(eval_result).value)
                  words == WordCount(Val(eval_answer))
                  reply == strip(Val(eval_response).text)
              IN  /\ result.score \in 1..10
                  /\ result.score = (IF words \div 5 < 1 THEN 1
                                     ELSE IF words \div 5 > 10 THEN 10 ELSE words \div 5)
                  /\ FeedbackHolds(result.feedback,
                                   SubSeq(reply, 1, IF Len(reply) < 200 THEN Len(reply) ELSE 200))
                  /\ Len(result.feedback) <= 200 + 2

\* The empty answer against a reply longer than the slice: score 1, the reply cut.
WitC24_EmptyAnswerLongReply ==
    /\ MalformedReply
    /\ Val(eval_answer) = <<>>
    /\ Len(Val(eval_response).text) > 200
    /\ Val(Val(eval_result).value).score = 1
    /\ Len(Val(Val(eval_result).value).feedback) = 200 + 2

\* C25: whenever the reply is text from which no valid evaluation is parsed, malformed
\* or well-formed but outside the schema, evaluate_answer returns a fallback evaluation,
\* and every evaluation it returns has a score in 1..10.
CexC25_FallbackOnSchemaViolation ==
    (eval_result # None /\ Val(eval_response).kind = "text")
        => /\ Val(eval_result).value # None
           /\ Val(Val(eval_result).value).score \in 1..10

\* The questions a get_question request for this session can be answered with.
Offerable(used, session) ==
    select_question_choices(used, session.topics, Some(session.difficulty))

\* C26: sessions do not interfere: a get_question request for one session leaves the
\* questions every other active session can be given as they were.
CexC26_SessionsDoNotInterfere ==
    [][ \A b \in DOMAIN active_sessions :
            ( /\ request' # None
              /\ Val(request').message.type = Some("get_question")
              /\ Val(request').message.session_id # Some(b)
              /\ b \in DOMAIN active_sessions' )
                => Offerable(used_questions', active_sessions'[b])
                       = Offerable(used_questions, active_sessions[b])
      ]_vars

\* The question is in the bank, has one of the requested topics (any topic when none
\* is requested) and the requested difficulty (any difficulty when none is requested).
MatchesRequest(q, topics, difficulty) ==
    /\ \E i \in 1..Len(QUESTIONS) : QUESTIONS[i] = q
    /\ (topics = <<>> \/ \E i \in 1..Len(topics) : topics[i] = q.topic)
    /\ (difficulty = None \/ q.difficulty = Val(difficulty))

WasUsed(used, id) == \E i \in 1..Len(used) : used[i] = id

\* C30: select_question returns a question that matches the request and was not used
\* since the last reset, and appends its id to the used list; it returns None exactly
\* when every matching question is used, and then changes nothing; filter_questions
\* never changes the used list.
ThmC30_SelectUnusedMatching ==
    [][ (qm_call' # None /\ qm_call' # qm_call)
            => LET call == Val(qm_call')
               IN  /\ (call.op = "select_question" /\ call.result # None)
                          => /\ MatchesRequest(Val(call.result), call.topics, call.difficulty)
                             /\ ~WasUsed(used_questions, Val(call.result).id)
                             /\ used_questions' = Append(used_questions, Val(call.result).id)
                   /\ (call.op = "select_question" /\ call.result = None)
                          => /\ used_questions' = used_questions
                             /\ \A i \in 1..Len(QUESTIONS) :
                                    MatchesRequest(QUESTIONS[i], call.topics, call.difficulty)
                                        => WasUsed(used_questions, QUESTIONS[i].id)
                   /\ call.op = "filter_questions" => used_questions' = used_questions
      ]_vars

\* A third question of the same topic asked for, of any difficulty, after both were
\* taken: the request finds nothing left.
WitC30_MatchingQuestionsExhausted ==
    /\ qm_call # None
    /\ Val(qm_call).op = "select_question"
    /\ Val(qm_call).topics = <<"programming">>
    /\ Val(qm_call).difficulty = None
    /\ Val(qm_call).result = None
    /\ used_questions = <<"q003", "q001">>

\* The entries of the session and the summary its last end_session stored.
SummaryEntries == Val(session_logger).questions_asked
Summary == Val(Val(session_logger).session_summary)

\* end_session has just computed the summary, and it is not the no-questions one.
Summarized ==
    /\ session_logger # None
    /\ LoggerCall.op = "end_session"
    /\ Val(session_logger).session_summary # None
    /\ "questions_asked" \in DOMAIN Summary

ScoredEntries == { i \in 1..Len(SummaryEntries) : SummaryEntries[i].llm_score # None }
ScoreOf(i) == Val(SummaryEntries[i].llm_score)

RECURSIVE TotalScore(_)
TotalScore(indices) ==
    IF indices = {} THEN 0
    ELSE LET i == CHOOSE i \in indices : TRUE
         IN  ScoreOf(i) + TotalScore(indices \ {i})

RECURSIVE TotalCount(_, _)
TotalCount(per_topic, topics) ==
    IF topics = {} THEN 0
    ELSE LET t == CHOOSE t \in topics : TRUE
         IN  per_topic[t].count + TotalCount(per_topic, topics \ {t})

\* C29: the summary end_session computes counts the scored entries as evaluated, at most the entries asked;
\* with a scored entry, lowest and highest are the least and greatest score of the
\* scored entries and the average (in hundredths) is their mean rounded, between the
\* two; the per-topic counts add up to the entries asked; the follow-up counts are the
\* entries with a follow-up question and with a follow-up answer.
ThmC29_SummaryOverScoredEntries ==
    Summarized
        => /\ Summary.questions_asked = Len(SummaryEntries)
           /\ Summary.questions_evaluated = Cardinality(ScoredEntries)
           /\ Summary.questions_evaluated <= Summary.questions_asked
           /\ ScoredEntries = {} => Summary.score_statistics = None
           /\ ScoredEntries # {}
                  => /\ Summary.score_statistics # None
                     /\ LET stats == Val(Summary.score_statistics)
                            n == Cardinality(ScoredEntries)
                        IN  /\ stats.total_evaluated = n
                            /\ \E i \in ScoredEntries : stats.lowest = ScoreOf(i)
                            /\ \A i \in ScoredEntries : stats.lowest <= ScoreOf(i)
                            /\ \E i \in ScoredEntries : stats.highest = ScoreOf(i)
                            /\ \A i \in ScoredEntries : stats.highest >= ScoreOf(i)
                            /\ 100 * stats.lowest <= stats.average
                            /\ stats.average <= 100 * stats.highest
                            /\ 2 * (stats.average * n - 100 * TotalScore(ScoredEntries)) <= n
                            /\ 2 * (100 * TotalScore(ScoredEntries) - stats.average * n) <= n
           /\ TotalCount(Summary.topics_covered, DOMAIN Summary.topics_covered)
                  = Len(SummaryEntries)
           /\ Summary.follow_ups_generated =
                  Cardinality({ i \in 1..Len(SummaryEntries) :
                                  /\ SummaryEntries[i].follow_up_question # None
                                  /\ Val(SummaryEntries[i].follow_up_question) # <<>> })
           /\ Summary.follow_ups_answered =
                  Cardinality({ i \in 1..Len(SummaryEntries) :
                                  /\ SummaryEntries[i].follow_up_answer # None
                                  /\ Val(SummaryEntries[i].follow_up_answer) # <<>> })

\* Three entries of two topics, two of them scored differently, one follow-up
\* generated and answered.
WitC29_MixedSession ==
    /\ Summarized
    /\ Summary.questions_asked = 3
    /\ Summary.questions_evaluated = 2
    /\ Val(Summary.score_statistics).lowest = 2
    /\ Val(Summary.score_statistics).highest = 9
    /\ Val(Summary.score_statistics).average = 550
    /\ Cardinality(DOMAIN Summary.topics_covered) = 2
    /\ Summary.follow_ups_generated = 1
    /\ Summary.follow_ups_answered = 1

\* A handler of session sid is inside an external call.
InExternalCall(sid) ==
    \E i \in 1..Len(tasks) :
        /\ tasks[i].message.session_id = Some(sid)
        /\ tasks[i].pc \in {"transcribe", "reason", "synthesis"}

\* Connection c's next frame is for the running session sid.
NextFrameFor(c, sid) ==
    /\ FirstOf(c) # 0
    /\ inbox[FirstOf(c)].message.session_id = Some(sid)
    /\ sid \in DOMAIN active_sessions

\* C27: while a call made for session A has not returned, the next frame of another
\* connection that is for a different session B can be taken and handled.
CexC27_StallBlocksOnlyItsSession ==
    \A a \in LoopSessions, b \in LoopSessions, c \in LoopConnections :
        ( /\ a # b
          /\ InExternalCall(a)
          /\ \A i \in 1..Len(tasks) : tasks[i].conn # c
          /\ NextFrameFor(c, b) )
            => ENABLED Receive(c)

\* The handlers of session sid that are classifying and acting on an utterance.
Classifying(sid) ==
    { i \in 1..Len(tasks) : tasks[i].message.session_id = Some(sid) /\ tasks[i].pc = "reason" }

\* C28: two utterances of one session are never being classified and acted upon at
\* once, and a handler that has appended its exchange finds it last in the history.
ThmC28_NoPipelining ==
    /\ \A sid \in LoopSessions : Cardinality(Classifying(sid)) <= 1
    /\ \A i \in 1..Len(tasks) :
           tasks[i].pc = "synthesis"
               => LET history == active_sessions[Val(tasks[i].message.session_id)]
                                     .ai_manager.conversation_history
                  IN  /\ history # <<>>
                      /\ history[Len(history)].user_input = tasks[i].transcript
                      /\ \A j \in 1..Len(tasks) :
                             j # i => tasks[j].message.session_id # tasks[i].message.session_id
                                      \/ tasks[j].pc = "transcribe"

\* An utterance of session 1 is being classified while the other connection's next
\* frame is a second utterance for session 1.
WitC28_SecondUtteranceWaits ==
    /\ Classifying(1) # {}
    /\ \E c \in LoopConnections :
           /\ \A i \in 1..Len(tasks) : tasks[i].conn # c
           /\ NextFrameFor(c, 1)

---------------------------------------------------------------------------
(* Claims about the conversation context *)

\* C33: follow_up_count stays within 0..max_follow_ups; a call changes it only by
\* adding one when it was strictly below the maximum, or by resetting it to 0.
ThmC33_CounterInRange ==
    [][ LET before == conversation_state.follow_up_count
            after == conversation_state'.follow_up_count
        IN  /\ 0 <= after
            /\ after <= conversation_state'.max_follow_ups
            /\ conversation_state'.max_follow_ups = conversation_state.max_follow_ups
            /\ after # before
                  => \/ after = before + 1 /\ before < conversation_state.max_follow_ups
                     \/ after = 0
      ]_vars

\* The counter stands at the maximum and the decision asks for one more follow-up.
WitC33_CounterAtMaximum ==
    /\ conversation_state.follow_up_count = conversation_state.max_follow_ups
    /\ last_call # None
    /\ Val(last_call).before.follow_up_count = conversation_state.max_follow_ups - 1
    /\ Val(action).type = "follow_up"

\* C36: a call that does not take the error path appends exactly one exchange holding
\* the user text, the returned action's text, the classified intent and the
\* questions_asked value after the action; the earlier exchanges stay as they were;
\* a call on the error path leaves the history as it was.
ThmC36_HistoryAppendOnly ==
    [][ LET history == conversation_state.conversation_history
            after == conversation_state'.conversation_history
        IN  IF Val(action').type = "error"
            THEN after = history
            ELSE /\ Len(after) = Len(history) + 1
                 /\ SubSeq(after, 1, Len(history)) = history
                 /\ after[Len(after)].user_input \in Transcripts
                 /\ after[Len(after)].ai_response = Val(action').text
                 /\ Some(after[Len(after)].intent) = Val(last_call').intent
                 /\ after[Len(after)].question_number = conversation_state'.questions_asked
      ]_vars

\* A call took the error path after two exchanges, which are still there.
WitC36_ErrorAfterTwoExchanges ==
    /\ action # None
    /\ Val(action).type = "error"
    /\ Len(conversation_state.conversation_history) = 2
    /\ conversation_state.conversation_history[1].question_number = 1

\* C37: after a call that returned a 'question' action, current_question is the
\* action's text and questions_asked is one more than before the call.
CexC37_SpokenQuestionIsCurrent ==
    (action # None /\ Val(action).type = "question")
        => /\ conversation_state.current_question =
                  (IF Val(action).text = NoText THEN None ELSE Some(Val(action).text))
           /\ conversation_state.questions_asked = Val(last_call).before.questions_asked + 1

---------------------------------------------------------------------------
(* Claims about get_question, end_session and disconnection *)

\* A get_question message for a registered session is handled in this step.
QuestionRequested ==
    /\ Handled
    /\ HandledType = Some("get_question")
    /\ Addressed # None
    /\ Val(Addressed) \in DOMAIN active_sessions

\* No unused question matches the topics and difficulty of session sid.
NoneLeft(sid) ==
    ~\E i \in 1..Len(QUESTIONS) :
        /\ MatchesRequest(QUESTIONS[i], active_sessions[sid].topics,
                          Some(active_sessions[sid].difficulty))
        /\ ~WasUsed(used_questions, QUESTIONS[i].id)

\* The session's counter and its record after the step, against before.
Appended(sid, n) ==
    /\ sid \in DOMAIN active_sessions'
    /\ Len(active_sessions'[sid].logger.questions_asked)
           = Len(active_sessions[sid].logger.questions_asked) + n
    /\ active_sessions'[sid].questions_asked = active_sessions[sid].questions_asked + n
    /\ active_sessions'[sid].questions_asked
           = Len(active_sessions'[sid].logger.questions_asked)

\* C32 as stated: get_question for a registered session with no unused matching
\* question answers 'error' and leaves the session as it was; a 'question' response
\* comes with one more entry and a counter one higher; the counter equals the number
\* of entries.
CexC32_NoQuestionIsAnError ==
    [][ QuestionRequested
            => LET sid == Val(Addressed)
               IN  /\ NoneLeft(sid)
                      => /\ response'[1].type = "error"
                         /\ active_sessions' = active_sessions
                   /\ response'[1].type = "question" => Appended(sid, 1)
                   /\ response'[1].type # "question" => Appended(sid, 0)
      ]_vars

\* C32, amended: the same for a session whose interview time has not elapsed; once it
\* has, the answer is 'interview_complete' and the session is left as it was.
ThmC32_NoQuestionIsAnErrorInTime ==
    [][ QuestionRequested
            => LET sid == Val(Addressed)
                   elapsed == TimeElapsed(active_sessions[sid], now)
               IN  /\ (NoneLeft(sid) /\ ~elapsed)
                      => /\ response'[1] = ErrorResponse("No more questions available")
                         /\ active_sessions' = active_sessions
                         /\ used_questions' = used_questions
                   /\ elapsed
                      => /\ response'[1].type = "interview_complete"
                         /\ active_sessions' = active_sessions
                   /\ response'[1].type = "question" => Appended(sid, 1)
                   /\ response'[1].type # "question" => Appended(sid, 0)
      ]_vars

\* A session that was given its one matching question asks again in time and is
\* refused; its record holds the one entry.
WitC32_SecondRequestRefused ==
    /\ request # None
    /\ Val(request).message.type = Some("get_question")
    /\ response = <<ErrorResponse("No more questions available")>>
    /\ \E sid \in DOMAIN active_sessions :
           /\ Val(request).message.session_id = Some(sid)
           /\ ~TimeElapsed(active_sessions[sid], now)
           /\ active_sessions[sid].questions_asked = 1
           /\ Len(active_sessions[sid].logger.questions_asked) = 1

\* C38: end_session for a registered session, one without any entry in its record
\* included, answers 'session_ended' and removes the session from the registry.
CexC38_EndSessionAlwaysEnds ==
    [][ ( /\ Handled
          /\ HandledType = Some("end_session")
          /\ Addressed # None
          /\ Val(Addressed) \in DOMAIN active_sessions )
            => /\ response'[1].type = "session_ended"
               /\ Val(Addressed) \notin DOMAIN active_sessions'
      ]_vars

\* C40: when a connection closes, no session started on it stays in the registry.
CexC40_NoSessionLeftOnDisconnect ==
    [][ \A c \in connections \ connections' :
            \A sid \in DOMAIN active_sessions' : active_sessions'[sid].websocket # c
      ]_vars

---------------------------------------------------------------------------
(* Claims about the capture loop *)

\* The length of the trailing run of frames whose peak is below the threshold.
RECURSIVE TrailingSilence(_)
TrailingSilence(frames) ==
    IF frames = <<>> THEN 0
    ELSE IF frames[Len(frames)] < AMPLITUDE_THRESHOLD
    THEN 1 + TrailingSilence(SubSeq(frames, 1, Len(frames) - 1))
    ELSE 0

\* C34: once a capture thread runs, the silent-frame counter is the length of the
\* trailing run of frames with a peak strictly below the threshold; a frame at the
\* threshold or above resets it, and the first frame counts like any other.
ThmC34_CounterIsTrailingSilence ==
    recording_thread # None
        => silence_counter = TrailingSilence(Val(recorded_audio))

\* A silent first frame was counted, a frame with a peak equal to the threshold reset
\* the counter, and the silent frame after it was counted again.
WitC34_ThresholdFrameResets ==
    /\ recording_thread # None
    /\ Len(Val(recorded_audio)) = 3
    /\ Val(recorded_audio)[1] < AMPLITUDE_THRESHOLD
    /\ Val(recorded_audio)[2] = AMPLITUDE_THRESHOLD
    /\ Val(recorded_audio)[3] < AMPLITUDE_THRESHOLD
    /\ silence_counter = 1

\* C35: once the capture thread has ended after a failed frame read, is_recording is
\* false and the completion callback, when one was given, has been invoked.
CexC35_ReadErrorSignalsCompletion ==
    ( /\ recording_thread = Some("finished")
      /\ stop_reason = Some("error")
      /\ recording_complete # None )
        => /\ ~is_recording
           /\ recording_complete = Some(TRUE)

\* C39: whenever record_and_transcribe waits and its capture thread has ended, however
\* it ended, the completion signal is raised, so the wait returns.
CexC39_WaitIsReleased ==
    (caller = "wait" /\ recording_thread = Some("finished"))
        => recording_complete = Some(TRUE)

---------------------------------------------------------------------------
(* Claims about the question bank *)

\* The questions a constructed QuestionManager holds.
LoadedBank == Val(qm_call).questions

\* C31: the bank a QuestionManager holds after loading has no two questions with the
\* same id, no question whose text or reference answer is empty or blank, and no
\* difficulty outside 1..5.
CexC31_LoadedBankIsValid ==
    (qm_call # None /\ Val(qm_call).op = "__init__")
        => /\ \A i, j \in 1..Len(LoadedBank) : i # j => LoadedBank[i].id # LoadedBank[j].id
           /\ \A i \in 1..Len(LoadedBank) :
                  /\ strip(LoadedBank[i].text) # <<>>
                  /\ strip(LoadedBank[i].expected_answer) # <<>>
                  /\ LoadedBank[i].difficulty \in MIN_DIFFICULTY..MAX_DIFFICULTY

====
